---- MODULE Spec2Model ----
(***************************************************************************)
(* RepoGen V2 (MelroseSaint/RepositoryGeneratorV2).                        *)
(*                                                                         *)
(* A model of the flat-path-to-tree converter of generateFileTree, of the  *)
(* GitHub push helper (createRepository / pushToGithub and its caller      *)
(* handlePushToGithub) and of the AI client adapter (detectStack,          *)
(* generateFileTree, refactorCode) as the wizard drives it; of the         *)
(* heuristic detectors and template generators, of the key store, of the   *)
(* wizard's navigation, and of the Upload, Preview and Generate step       *)
(* components on their own (SpecUpload, SpecControls, SpecTicker).         *)
(*                                                                         *)
(* Strings that the code takes apart (paths, file names) are sequences of  *)
(* one-character strings, so that split, join and replace are computed.    *)
(***************************************************************************)
EXTENDS Integers, Sequences, FiniteSets, TLC

VARIABLES
    \* ---- path-to-tree converter (services/githubService.ts 433-467)
    files,        \* the parsed JSON object: sequence of [path, content], key order
    fileNodes,    \* const fileNodes: FileNode[] = [], as returned
    convPc,       \* "parsed" | "returned" ("off" outside SpecTree)
    \* ---- StepGenerate (components/Steps/5-Generate.tsx 15-191)
    finalFiles,      \* useState<FileNode[]>: the tree that is zipped or pushed
    githubToken,     \* useState(''): TRUE when the field holds a non-empty token
    showTokenInput,  \* useState(false)
    isPushing,       \* useState(false)
    pushResult,      \* useState(null): "null" | "success" | "error"
    logs,            \* useState<GenerationLog[]>: the messages logged by the push
    \* ---- handlePushToGithub / pushToGithub in flight (githubService.ts 152-236)
    pushPc,          \* the await the run is suspended at, "idle" when none
    repoData,        \* createRepository's result of this run
    latestCommitSha, \* refData.object.sha
    baseTreeSha,     \* commitData.tree.sha
    treeItems,       \* const treeItems = []
    blobQueue,       \* the File nodes processNode has still to visit, in order
    treeSha,         \* treeData.sha
    \* ---- the hosting API as the run sees it
    callLog,         \* calls and returns of the current pushToGithub run, in order
    createCalls,     \* createRepository calls made in this wizard run
    createdBefore,   \* createRepository calls made after one had succeeded
    remoteRepo,      \* TRUE once the repository exists at the host
    remoteRef,       \* the commit heads/main points to at the host
    \* ---- the AI client adapter (services/aiService.ts 8-56)
    runtimeApiKey,   \* let runtimeApiKey: "" or the key the user saved
    envApiKey,       \* process.env.GEMINI_API_KEY as the build defined it
    build,           \* the revision of generateFileTree that is bundled
    \* ---- App (unnamed/part_000 11-46)
    step,            \* useState<AppStep>: 0 Upload .. 4 Generate
    rawInput,        \* useState<string>('')
    config,          \* useState<RepoConfig>(INITIAL_CONFIG)
    generatedFiles,  \* useState<FileNode[]>([])
    \* ---- StepDetection (components/Steps/2-Detection.tsx 12-25)
    detectionLoading, \* useState(true)
    detectionResult,  \* useState<DetectionResult | null>(null)
    \* ---- StepPreview (components/Steps/4-Preview.tsx 115-187)
    previewLoading,  \* useState(true)
    previewFiles,    \* useState<FileNode[]>([])
    selectedFile,    \* useState<FileNode | null>(null): its index path, << >> for null
    isRefactoring,   \* useState(false)
    \* ---- the adapter's calls in flight
    detectPc,        \* detectStack: "idle" | "mockDelay" | "awaitAi" | "resolved"
    detectAnswer,    \* what the endpoint answered detectStack with
    genPc,           \* generateFileTree: "idle" | "awaitAi" | "resolved" | "rejected"
    genAnswer,       \* what ended generateFileTree's wait for the endpoint
    genConfig,       \* the config generateFileTree was called with
    genValue,        \* the tree generateFileTree resolved with
    refPc,           \* refactorCode: "idle" | "awaitAi"
    refInstruction,  \* the instruction of the refactor in flight
    refactors,       \* refactor requests made in this wizard run
    refOutcome,      \* how the last refactorCode call went: [how, settled, code, value]
    endpointCalls,   \* generateContent calls made, by operation, in order
    \* ---- the heuristic detector and the template generator on their own
    hPc,             \* "input" | "detected" | "config" | "generated" ("off" elsewhere)
    hInput,          \* the raw input
    hDetector,       \* the module whose detector ran: "aiService" | "mockAiWorker"
    hResult,         \* the DetectionResult it returned
    hConfig,         \* the RepoConfig, seeded from hResult and then edited
    hEdits,          \* handleChange calls made
    hGenerator,      \* the module whose template generator ran
    hTree,           \* the completion of the template generator
    \* ---- the key store and ApiKeyInput (aiService.ts 8-20, 5-Generate.tsx 594-624)
    keyPc,           \* "loaded" | "mounted" ("off" elsewhere)
    storedKey,       \* localStorage item 'gemini_api_key': << >> when absent, else << key >>
    viteApiKey,      \* import.meta.env.VITE_GEMINI_API_KEY as the build defined it
    akIsOpen,        \* ApiKeyInput: useState(false)
    akKey,           \* ApiKeyInput: useState(''), the text of the field, in pieces
    akHasKey,        \* ApiKeyInput: useState(false)
    hasApiKey,       \* App: useState(false)
    \* ---- the wizard with back and reset: effects and their calls
    effectCalls,     \* the calls of the step effects, in flight or of the mounted step
    complete,        \* StepGenerate: useState(false)
    navs,            \* goBack and handleReset calls made
    edited,          \* TRUE once handleChange has run since the last handleReset
    \* ---- StepUpload (components/Steps/1-Upload.tsx 159-262)
    textInput,       \* useState(''), in pieces
    importMode,      \* useState('file'): "file" | "github" ("off" elsewhere)
    isLoading,       \* useState(false)
    uploadError,     \* useState<string | null>(null): "null" or the message shown
    repoFetch,       \* the last fetchRepoContents call: << >> or << [url, navs, status] >>
    nextCalls,       \* handleNext calls made
    \* ---- StepPreview's refactor controls (4-Preview.tsx 120-187, 265-309)
    refInFlight,     \* the refactorCode calls in flight: [instruction, file], call order
    refactorPrompt,  \* useState(''), in pieces
    showRefactorInput, \* useState(false)
    \* ---- StepGenerate's effect (5-Generate.tsx 28-76 and 351-382)
    revision,        \* the revision of StepGenerate that is bundled ("off" elsewhere)
    currentStep,     \* let currentStep = 0
    interval,        \* the setInterval timer: "none" | "running" | "cleared"
    tickerCall       \* the effect's generateFileTree call: "none" | "pending" | "resolved" | "rejected"

treeVars == <<files, fileNodes, convPc>>

uiVars == <<finalFiles, githubToken, showTokenInput, isPushing, pushResult, logs>>

runVars == <<pushPc, repoData, latestCommitSha, baseTreeSha, treeItems, blobQueue, treeSha>>

hostVars == <<callLog, createCalls, createdBefore, remoteRepo, remoteRef>>

pushVars == <<uiVars, runVars, hostVars>>

keyVars == <<runtimeApiKey, envApiKey, build>>

appVars == <<step, rawInput, config, generatedFiles>>

detectionVars == <<detectionLoading, detectionResult, detectPc, detectAnswer>>

previewVars == <<previewLoading, previewFiles, selectedFile, isRefactoring>>

genVars == <<genPc, genAnswer, genConfig, genValue>>

refVars == <<refPc, refInstruction, refactors, refOutcome>>

aiVars == <<keyVars, appVars, detectionVars, previewVars, genVars, refVars,
            endpointCalls>>

heurVars == <<hPc, hInput, hDetector, hResult, hConfig, hEdits, hGenerator, hTree>>

storeVars == <<keyPc, storedKey, viteApiKey, akIsOpen, akKey, akHasKey, hasApiKey>>

navVars == <<effectCalls, complete, navs, edited>>

uploadVars == <<textInput, importMode, isLoading, uploadError, repoFetch, nextCalls>>

controlVars == <<refInFlight, refactorPrompt, showRefactorInput>>

tickerVars == <<revision, currentStep, interval, tickerCall>>

stepVars == <<uploadVars, controlVars, tickerVars>>

restVars == <<heurVars, storeVars, navVars, stepVars>>

vars == <<treeVars, pushVars, aiVars, restVars>>

----------------------------------------------------------------------------
(* Bounds of the model.                                                    *)

\* longest path, in segments, that the endpoint's JSON object may hold
MaxDepth == 3
\* largest number of keys of the endpoint's JSON object
MaxFiles == 2

\* file and folder names the paths are built from
Names == { <<"a">>, <<"b">> }
\* file contents
Contents == { "x", "y" }

FILE == "file"
FOLDER == "folder"

----------------------------------------------------------------------------
(* String helpers: String.prototype.split('/'), Array.prototype.join('/'), *)
(* String.prototype.replace(/c/g, d).                                      *)

RECURSIVE SplitFrom(_, _, _, _)
\* the segments of s from position i on, cur being the segment read so far
SplitFrom(s, sep, i, cur) ==
    IF i > Len(s) THEN << cur >>
    ELSE IF s[i] = sep THEN << cur >> \o SplitFrom(s, sep, i+1, << >>)
    ELSE SplitFrom(s, sep, i+1, Append(cur, s[i]))

\* s.split(sep) for a one-character separator: always at least one segment
Split(s, sep) == SplitFrom(s, sep, 1, << >>)

RECURSIVE Join(_, _)
\* segs.join(sep)
Join(segs, sep) ==
    IF Len(segs) = 0 THEN << >>
    ELSE IF Len(segs) = 1 THEN segs[1]
    ELSE segs[1] \o << sep >> \o Join(Tail(segs), sep)

\* s.replace(/from/g, to) for one-character from and to
ReplaceAll(s, from, to) ==
    [ i \in 1..Len(s) |-> IF s[i] = from THEN to ELSE s[i] ]

\* part.split('.').pop()
LastExt(part) ==
    LET ps == Split(part, ".") IN ps[Len(ps)]

----------------------------------------------------------------------------
(* The converter: for each [path, content] of Object.entries(files), walk   *)
(* and create folders for every segment but the last, push a file for the  *)
(* last.                                                                   *)

\* a lookup that never finds the folder it made before
findFolderNever(level, part) == 0

\* currentLevel.find(n => n.name === part && n.type === FileType.FOLDER):
\* the index of the first such node, 0 when there is none
findFolder(level, part) ==
    IF \E j \in 1..Len(level) : level[j].name = part /\ level[j].type = FOLDER
    THEN CHOOSE j \in 1..Len(level) :
            /\ level[j].name = part /\ level[j].type = FOLDER
            /\ \A k \in 1..(j-1) : ~(level[k].name = part /\ level[k].type = FOLDER)
    ELSE 0

\* the File node pushed for the last segment
newFileNode(part, path, content) ==
    [ name     |-> part,
      type     |-> FILE,
      content  |-> content,
      id       |-> ReplaceAll(ReplaceAll(path, ".", "-"), "/", "-"),
      language |-> LastExt(part) ]

\* the Folder node pushed when find() returns undefined
newFolderNode(part, children) ==
    [ name |-> part, type |-> FOLDER, children |-> children, id |-> part ]

\* a walk that goes on in a fresh array instead of the folder's own children
descendFresh(folder) == << >>

\* currentLevel = folder.children!: the level the walk goes on in
descend(folder) == folder.children

RECURSIVE insertPath(_, _, _, _, _)
\* the inner for-loop over parts, from index i, starting at currentLevel = level
insertPath(level, parts, i, path, content) ==
    LET part   == parts[i]
        isFile == i = Len(parts)
    IN  IF isFile
        THEN Append(level, newFileNode(part, path, content))
        ELSE LET idx == findFolder(level, part) IN
             IF idx = 0
             THEN Append(level,
                    newFolderNode(part, insertPath(<< >>, parts, i+1, path, content)))
             ELSE [ level EXCEPT ![idx].children =
                      insertPath(descend(level[idx]), parts, i+1, path, content) ]

----------------------------------------------------------------------------
(* Reading a tree back.                                                    *)

RECURSIVE FlattenLevel(_, _)
\* the File leaves of a level, depth first, as [path, content] with the full
\* slash-joined path; prefix holds the names of the enclosing folders
FlattenLevel(level, prefix) ==
    IF Len(level) = 0 THEN << >>
    ELSE LET n    == level[1]
             full == Append(prefix, n.name)
             here == IF n.type = FILE
                     THEN << [ path |-> Join(full, "/"), content |-> n.content ] >>
                     ELSE FlattenLevel(n.children, full)
         IN  here \o FlattenLevel(Tail(level), prefix)

Range(s) == { s[i] : i \in 1..Len(s) }

\* the keys of the parsed object
Keys(fs) == { fs[i].path : i \in 1..Len(fs) }

\* the parsed object as a set of [path, content] pairs
Pairs(fs) == Range(fs)

RECURSIVE SeqsUpTo(_, _)
\* the sequences over S of length 0..n
SeqsUpTo(S, n) ==
    IF n = 0 THEN { << >> }
    ELSE LET shorter == SeqsUpTo(S, n-1)
         IN  shorter \cup { Append(q, x) : q \in { r \in shorter : Len(r) = n-1 }, x \in S }

\* the paths a key of the object may be: 1..MaxDepth names joined by "/"
Paths == { Join(segs, "/") : segs \in SeqsUpTo(Names, MaxDepth) \ { << >> } }

\* JSON objects of at most MaxFiles keys: the keys of an object are distinct
JsonObjects ==
    { fs \in SeqsUpTo([ path : Paths, content : Contents ], MaxFiles) :
        \A i, j \in 1..Len(fs) : i # j => fs[i].path # fs[j].path }

----------------------------------------------------------------------------
(* The converter as a process: the object parsed, then the tree returned.   *)

UNDEFINED == "undefined"

\* the Generate step and the push helper, not mounted
PushOff ==
    /\ finalFiles = << >>
    /\ githubToken = FALSE /\ showTokenInput = FALSE /\ isPushing = FALSE
    /\ pushResult = "null" /\ logs = << >>
    /\ pushPc = "off" /\ repoData = UNDEFINED
    /\ latestCommitSha = UNDEFINED /\ baseTreeSha = UNDEFINED
    /\ treeItems = << >> /\ blobQueue = << >> /\ treeSha = UNDEFINED
    /\ callLog = << >> /\ createCalls = 0 /\ createdBefore = 0
    /\ remoteRepo = FALSE /\ remoteRef = UNDEFINED

\* the wizard and the AI adapter, not mounted
AiOff ==
    /\ runtimeApiKey = "" /\ envApiKey = "" /\ build = "off"
    /\ step = 0 /\ rawInput = << >> /\ config = << >> /\ generatedFiles = << >>
    /\ detectionLoading = FALSE /\ detectionResult = << >>
    /\ previewLoading = FALSE /\ previewFiles = << >>
    /\ selectedFile = << >> /\ isRefactoring = FALSE
    /\ detectPc = "off" /\ detectAnswer = << >>
    /\ genPc = "off" /\ genAnswer = << >> /\ genConfig = << >> /\ genValue = << >>
    /\ refPc = "off" /\ refInstruction = << >> /\ refactors = 0
    /\ refOutcome = << >>
    /\ endpointCalls = << >>

\* the heuristic detector and the template generator, not run on their own
HeurOff ==
    /\ hPc = "off" /\ hInput = << >> /\ hDetector = "none" /\ hResult = << >>
    /\ hConfig = << >> /\ hEdits = 0 /\ hGenerator = "none" /\ hTree = << >>

\* the key store and ApiKeyInput, not loaded
StoreOff ==
    /\ keyPc = "off" /\ storedKey = << >> /\ viteApiKey = ""
    /\ akIsOpen = FALSE /\ akKey = << >> /\ akHasKey = FALSE /\ hasApiKey = FALSE

\* no step effect has made a call
NavOff ==
    /\ effectCalls = << >> /\ complete = FALSE /\ navs = 0 /\ edited = FALSE

\* StepUpload, not mounted
UploadOff ==
    /\ textInput = << >> /\ importMode = "off" /\ isLoading = FALSE
    /\ uploadError = "null" /\ repoFetch = << >> /\ nextCalls = 0

\* the refactor controls of StepPreview, not mounted
ControlsOff ==
    /\ refInFlight = << >> /\ refactorPrompt = << >> /\ showRefactorInput = FALSE

\* the effect of StepGenerate, not run
TickerOff ==
    /\ revision = "off" /\ currentStep = 0 /\ interval = "none"
    /\ tickerCall = "none"

\* the step components modelled on their own, not mounted
StepsOff ==
    /\ UploadOff
    /\ ControlsOff
    /\ TickerOff

\* everything outside the converter, the push helper and the wizard
RestOff ==
    /\ HeurOff
    /\ StoreOff
    /\ NavOff
    /\ StepsOff

RECURSIVE convertEntries(_, _)
\* fileNodes after the first k iterations of
\*   for (const [path, content] of Object.entries(files))
convertEntries(fs, k) ==
    IF k = 0 THEN << >>
    ELSE insertPath(convertEntries(fs, k-1),
                    Split(fs[k].path, "/"), 1, fs[k].path, fs[k].content)

TreeInit ==
    /\ files \in JsonObjects
    /\ fileNodes = << >>
    /\ convPc = "parsed"
    /\ PushOff
    /\ AiOff
    /\ RestOff

\* the loop over Object.entries(files), then  return fileNodes
Convert ==
    /\ convPc = "parsed"
    /\ fileNodes' = convertEntries(files, Len(files))
    /\ convPc' = "returned"
    /\ UNCHANGED << files, pushVars, aiVars, restVars >>

TreeNext == Convert

SpecTree == TreeInit /\ [][TreeNext]_vars

----------------------------------------------------------------------------
(* Properties of the converter.                                            *)

\* p is used as a file and also as a folder prefix of q: q starts with p + "/"
IsFolderPrefixOf(p, q) ==
    Len(p) < Len(q) /\ SubSeq(q, 1, Len(p) + 1) = Append(p, "/")

\* no path of fs is used both as a file and as a folder prefix of another path
NoPrefixConflict(fs) ==
    \A i, j \in 1..Len(fs) : ~IsFolderPrefixOf(fs[i].path, fs[j].path)

RECURSIVE UniqueNames(_)
\* no two nodes of the level have the same name, nor of any level below it
UniqueNames(level) ==
    /\ \A i, j \in 1..Len(level) : i # j => level[i].name # level[j].name
    /\ \A i \in 1..Len(level) :
          level[i].type = FOLDER => UniqueNames(level[i].children)

\* C1: for every non-empty mapping without file/folder prefix conflicts, the
\* tree the converter returns, flattened to (full path, content) of its File
\* leaves, is exactly the mapping: no path lost, added or renamed, every
\* content unchanged.
C1_RoundTrip ==
    (convPc = "returned" /\ Len(files) > 0 /\ NoPrefixConflict(files)) =>
        LET flat == FlattenLevel(fileNodes, << >>) IN
        /\ Len(flat) = Len(files)
        /\ Range(flat) = Pairs(files)

\* a returned conversion of two files of one folder
C1_Witness ==
    /\ convPc = "returned" /\ Len(files) = 2 /\ NoPrefixConflict(files)
    /\ Len(fileNodes) = 1 /\ fileNodes[1].type = FOLDER
    /\ Len(fileNodes[1].children) = 2

\* C2: after any sequence of paths without file/folder prefix conflicts has
\* been processed, no level of the tree (the root sequence or a folder's
\* children) holds two nodes of the same name.
C2_UniqueNamesPerLevel ==
    (convPc = "returned" /\ NoPrefixConflict(files)) => UniqueNames(fileNodes)

\* two files sharing a two-folder prefix, processed, hang under one folder chain
C2_Witness ==
    /\ convPc = "returned" /\ Len(files) = 2 /\ NoPrefixConflict(files)
    /\ Len(Split(files[1].path, "/")) = 3
    /\ Len(fileNodes) = 1 /\ fileNodes[1].type = FOLDER
    /\ Len(fileNodes[1].children) = 1 /\ fileNodes[1].children[1].type = FOLDER
    /\ Len(fileNodes[1].children[1].children) = 2

RECURSIVE nodeIds(_)
\* the ids of the nodes of a tree, one entry per node, depth first
nodeIds(level) ==
    IF Len(level) = 0 THEN << >>
    ELSE LET n == level[1]
         IN  << n.id >>
             \o (IF n.type = FOLDER THEN nodeIds(n.children) ELSE << >>)
             \o nodeIds(Tail(level))

\* no two nodes of the tree, at any depth, have the same id
UniqueIds(level) ==
    LET ids == nodeIds(level)
    IN  \A i, j \in 1..Len(ids) : i # j => ids[i] # ids[j]

\* C28: in every tree the path-to-tree converter returns, all nodes have
\* pairwise different ids.
C28_UniqueIds ==
    convPc = "returned" => UniqueIds(fileNodes)

----------------------------------------------------------------------------
(* The repository-hosting adapter: createRepository and pushToGithub       *)
(* (services/githubService.ts 129-236), called by handlePushToGithub of    *)
(* the Generate step (components/Steps/5-Generate.tsx 138-191).            *)
(*                                                                         *)
(* The async functions are cut at their awaits: an action is the arrival   *)
(* of the response the run waits for, followed by the code up to the next  *)
(* await, whose call it issues.                                            *)

\* largest number of times the user starts handlePushToGithub in one wizard run
MaxPushRuns == 2

\* the trees the Generate step may hold: a root file; a file in a root folder;
\* a root file and a folder; folders two deep
PushObjects ==
    { << [ path |-> << "a" >>, content |-> "x" ] >>,
      << [ path |-> << "b", "/", "a" >>, content |-> "x" ] >>,
      << [ path |-> << "a" >>, content |-> "x" ],
         [ path |-> << "b", "/", "a" >>, content |-> "y" ] >>,
      << [ path |-> << "a", "/", "b", "/", "a" >>, content |-> "x" ],
         [ path |-> << "a", "/", "a" >>, content |-> "y" ] >> }

PushTrees == { convertEntries(fs, Len(fs)) : fs \in PushObjects }

\* what a call to the hosting API comes back with: a success response, a
\* non-success response with a JSON error body, or a rejected fetch
Outcomes == { "ok", "fail", "throw" }

\* the commit auto_init makes and its tree; the objects the push creates
InitialCommit == "c0"
InitialTree == "t0"
NewTree == "t1"
NewCommit == "c1"
BlobSha(content) == << "blob", content >>

\* path ? `${path}/${name}` : name
joinPath(path, name) ==
    IF path # << >> THEN path \o << "/" >> \o name ELSE name

\* the path processNode hands to a folder's child
childPath(path, node, child) == joinPath(path, child.name)

\* node.content || ''
blobContent(node) ==
    IF node.content = UNDEFINED \/ node.content = "" THEN "" ELSE node.content

RECURSIVE processNode(_, _)
RECURSIVE processChildren(_, _, _)
\* the File nodes processNode(node, path) visits, in order, each with the path
\* its tree entry gets and the content its blob gets
processNode(node, path) ==
    IF node.type = FOLDER
    THEN processChildren(node, path, 1)
    ELSE << [ path |-> joinPath(path, node.name), content |-> blobContent(node) ] >>

\* for (const child of node.children) await processNode(child, ...), from child k
processChildren(node, path, k) ==
    IF k > Len(node.children) THEN << >>
    ELSE processNode(node.children[k], childPath(path, node, node.children[k]))
            \o processChildren(node, path, k + 1)

RECURSIVE processFiles(_)
\* for (const node of files) await processNode(node, '')
processFiles(nodes) ==
    IF Len(nodes) = 0 THEN << >>
    ELSE processNode(nodes[1], << >>) \o processFiles(Tail(nodes))

\* treeItems.push({ path, mode: '100644', type: 'blob', sha: blobData.sha })
treeItem(path, sha) ==
    [ path |-> path, mode |-> "100644", type |-> "blob", sha |-> sha ]

\* the body of the tree-create request, with a base tree sha taken from the
\* head commit's own sha
treeCreateBodyOnCommit(commitSha, base, items) ==
    [ base_tree |-> commitSha, tree |-> items ]

\* the body of the tree-create request
treeCreateBody(commitSha, base, items) ==
    [ base_tree |-> base, tree |-> items ]

\* the body of the commit-create request
commitCreateBody(tree, parent) ==
    [ tree |-> tree, parents |-> << parent >> ]

Call(op, arg) == [ ev |-> "call", op |-> op, arg |-> arg ]
Return(op, outcome, sha) == [ ev |-> "return", op |-> op, outcome |-> outcome, sha |-> sha ]

\* the host refuses a request that names an object it was not given
WellFormed(call) ==
    CASE call.op = "treeCreate"   -> \A i \in 1..Len(call.arg.tree) :
                                        call.arg.tree[i].sha # UNDEFINED
      [] call.op = "commitCreate" -> call.arg.tree # UNDEFINED
      [] call.op = "refUpdate"    -> call.arg # UNDEFINED
      [] OTHER                    -> TRUE

\* the call the run is waiting for
pending == callLog[Len(callLog)]

\* the Generate step mounted, complete, with the tree to push; the repository
\* name still free at the host
PushInit ==
    /\ finalFiles \in PushTrees
    /\ githubToken = FALSE /\ showTokenInput = FALSE /\ isPushing = FALSE
    /\ pushResult = "null" /\ logs = << >>
    /\ pushPc = "idle" /\ repoData = UNDEFINED
    /\ latestCommitSha = UNDEFINED /\ baseTreeSha = UNDEFINED
    /\ treeItems = << >> /\ blobQueue = << >> /\ treeSha = UNDEFINED
    /\ callLog = << >> /\ createCalls = 0 /\ createdBefore = 0
    /\ remoteRepo = FALSE /\ remoteRef = UNDEFINED
    /\ files = << >> /\ fileNodes = << >> /\ convPc = "off"
    /\ AiOff
    /\ RestOff

\* onClick={() => setShowTokenInput(true)}  ("Push to GitHub")
ClickPushToGithub ==
    /\ pushPc # "off"
    /\ ~showTokenInput /\ pushResult # "success"
    /\ showTokenInput' = TRUE
    /\ UNCHANGED << finalFiles, githubToken, isPushing, pushResult, logs,
                    runVars, hostVars, treeVars, aiVars, restVars >>

\* onChange={(e) => setGithubToken(e.target.value)}
TypeToken ==
    /\ pushPc # "off"
    /\ showTokenInput /\ pushResult # "success"
    /\ \E t \in BOOLEAN : t # githubToken /\ githubToken' = t
    /\ UNCHANGED << finalFiles, showTokenInput, isPushing, pushResult, logs,
                    runVars, hostVars, treeVars, aiVars, restVars >>

\* onClick={() => setShowTokenInput(false)}  ("Cancel")
CancelToken ==
    /\ pushPc # "off"
    /\ showTokenInput /\ pushResult # "success"
    /\ showTokenInput' = FALSE
    /\ UNCHANGED << finalFiles, githubToken, isPushing, pushResult, logs,
                    runVars, hostVars, treeVars, aiVars, restVars >>

\* onClick={() => setPushResult(null)}  ("Try Again")
TryAgain ==
    /\ pushPc # "off"
    /\ pushResult = "error"
    /\ pushResult' = "null"
    /\ UNCHANGED << finalFiles, githubToken, showTokenInput, isPushing, logs,
                    runVars, hostVars, treeVars, aiVars, restVars >>

\* catch (error) { setPushResult({ success: false, ... }); log warn } finally
Rejected ==
    /\ pushResult' = "error"
    /\ logs' = Append(logs, "GitHub Error")
    /\ isPushing' = FALSE
    /\ pushPc' = "idle"

\* "Push Repo": handlePushToGithub up to  await createRepository(...)
handlePushToGithub ==
    /\ pushPc = "idle"
    /\ showTokenInput /\ pushResult # "success"
    /\ githubToken /\ ~isPushing
    /\ createCalls < MaxPushRuns
    /\ isPushing' = TRUE
    /\ pushResult' = "null"
    /\ logs' = Append(logs, "Creating GitHub repository...")
    /\ pushPc' = "createRepository"
    /\ createCalls' = createCalls + 1
    /\ createdBefore' = IF remoteRepo THEN createdBefore + 1 ELSE createdBefore
    /\ callLog' = << >>
    /\ repoData' = UNDEFINED /\ latestCommitSha' = UNDEFINED
    /\ baseTreeSha' = UNDEFINED /\ treeItems' = << >> /\ blobQueue' = << >>
    /\ treeSha' = UNDEFINED
    /\ UNCHANGED << finalFiles, githubToken, showTokenInput, remoteRepo, remoteRef,
                    treeVars, aiVars, restVars >>

\* createRepository settles; on success pushToGithub runs up to the ref-read
createRepositoryReturns ==
    /\ pushPc = "createRepository"
    /\ \E o \in Outcomes :
        /\ (o = "ok") => ~remoteRepo
        /\ IF o = "ok"
           THEN /\ remoteRepo' = TRUE
                /\ remoteRef' = InitialCommit
                /\ repoData' = "repo"
                /\ logs' = logs \o << "Repository created", "Pushing files..." >>
                /\ callLog' = << Call("refRead", "heads/main") >>
                /\ pushPc' = "refRead"
                /\ UNCHANGED << isPushing, pushResult >>
           ELSE /\ Rejected
                /\ UNCHANGED << remoteRepo, remoteRef, repoData, callLog >>
    /\ UNCHANGED << finalFiles, githubToken, showTokenInput, latestCommitSha,
                    baseTreeSha, treeItems, blobQueue, treeSha, createCalls,
                    createdBefore, treeVars, aiVars, restVars >>

\* 1. the ref-read settles:  if (!refRes.ok) throw ...
refReadReturns ==
    /\ pushPc = "refRead"
    /\ \E o \in Outcomes :
        IF o = "ok"
        THEN /\ latestCommitSha' = remoteRef
             /\ callLog' = callLog \o << Return("refRead", o, remoteRef),
                                         Call("commitRead", remoteRef) >>
             /\ pushPc' = "commitRead"
             /\ UNCHANGED << isPushing, pushResult, logs >>
        ELSE /\ Rejected
             /\ callLog' = Append(callLog, Return("refRead", o, UNDEFINED))
             /\ UNCHANGED latestCommitSha
    /\ UNCHANGED << finalFiles, githubToken, showTokenInput, repoData, baseTreeSha,
                    treeItems, blobQueue, treeSha, createCalls, createdBefore,
                    remoteRepo, remoteRef, treeVars, aiVars, restVars >>

\* the call the walk over the tree issues next: the blob of the first File node
\* still to visit, or the tree-create when none is left
nextAfterBlobs(queue, items, base) ==
    IF Len(queue) > 0
    THEN Call("blobCreate", queue[1].content)
    ELSE Call("treeCreate", treeCreateBody(latestCommitSha, base, items))

\* 2. the commit-read settles: commitData.tree.sha throws on an error body
commitReadReturns ==
    /\ pushPc = "commitRead"
    /\ \E o \in Outcomes :
        IF o = "ok"
        THEN /\ baseTreeSha' = InitialTree
             /\ treeItems' = << >>
             /\ blobQueue' = processFiles(finalFiles)
             /\ callLog' = callLog \o << Return("commitRead", o, InitialTree),
                                         nextAfterBlobs(blobQueue', treeItems', InitialTree) >>
             /\ pushPc' = IF Len(blobQueue') > 0 THEN "blobCreate" ELSE "treeCreate"
             /\ UNCHANGED << isPushing, pushResult, logs >>
        ELSE /\ Rejected
             /\ callLog' = Append(callLog, Return("commitRead", o, UNDEFINED))
             /\ UNCHANGED << baseTreeSha, treeItems, blobQueue >>
    /\ UNCHANGED << finalFiles, githubToken, showTokenInput, repoData,
                    latestCommitSha, treeSha, createCalls, createdBefore,
                    remoteRepo, remoteRef, treeVars, aiVars, restVars >>

\* 3. a blob-create settles: blobData.sha is pushed whatever the response was
blobCreateReturns ==
    /\ pushPc = "blobCreate"
    /\ \E o \in Outcomes :
        IF o # "throw"
        THEN LET sha == IF o = "ok" THEN BlobSha(blobQueue[1].content) ELSE UNDEFINED IN
             /\ treeItems' = Append(treeItems, treeItem(blobQueue[1].path, sha))
             /\ blobQueue' = Tail(blobQueue)
             /\ callLog' = callLog \o << Return("blobCreate", o, sha),
                                         nextAfterBlobs(blobQueue', treeItems', baseTreeSha) >>
             /\ pushPc' = IF Len(blobQueue') > 0 THEN "blobCreate" ELSE "treeCreate"
             /\ UNCHANGED << isPushing, pushResult, logs >>
        ELSE /\ Rejected
             /\ callLog' = Append(callLog, Return("blobCreate", o, UNDEFINED))
             /\ UNCHANGED << treeItems, blobQueue >>
    /\ UNCHANGED << finalFiles, githubToken, showTokenInput, repoData,
                    latestCommitSha, baseTreeSha, treeSha, createCalls, createdBefore,
                    remoteRepo, remoteRef, treeVars, aiVars, restVars >>

\* 4. the tree-create settles: treeData.sha is used whatever the response was
treeCreateReturns ==
    /\ pushPc = "treeCreate"
    /\ \E o \in Outcomes :
        /\ (o = "ok") => WellFormed(pending)
        /\ IF o # "throw"
           THEN /\ treeSha' = IF o = "ok" THEN NewTree ELSE UNDEFINED
                /\ callLog' = callLog \o
                     << Return("treeCreate", o, treeSha'),
                        Call("commitCreate", commitCreateBody(treeSha', latestCommitSha)) >>
                /\ pushPc' = "commitCreate"
                /\ UNCHANGED << isPushing, pushResult, logs >>
           ELSE /\ Rejected
                /\ callLog' = Append(callLog, Return("treeCreate", o, UNDEFINED))
                /\ UNCHANGED treeSha
    /\ UNCHANGED << finalFiles, githubToken, showTokenInput, repoData,
                    latestCommitSha, baseTreeSha, treeItems, blobQueue, createCalls,
                    createdBefore, remoteRepo, remoteRef, treeVars, aiVars, restVars >>

\* 5. the commit-create settles: newCommitData.sha is used whatever it was
commitCreateReturns ==
    /\ pushPc = "commitCreate"
    /\ \E o \in Outcomes :
        /\ (o = "ok") => WellFormed(pending)
        /\ IF o # "throw"
           THEN LET sha == IF o = "ok" THEN NewCommit ELSE UNDEFINED IN
                /\ callLog' = callLog \o << Return("commitCreate", o, sha),
                                            Call("refUpdate", sha) >>
                /\ pushPc' = "refUpdate"
                /\ UNCHANGED << isPushing, pushResult, logs >>
           ELSE /\ Rejected
                /\ callLog' = Append(callLog, Return("commitCreate", o, UNDEFINED))
    /\ UNCHANGED << finalFiles, githubToken, showTokenInput, repoData,
                    latestCommitSha, baseTreeSha, treeItems, blobQueue, treeSha,
                    createCalls, createdBefore, remoteRepo, remoteRef, treeVars, aiVars, restVars >>

\* 6. the ref-update settles: its response is not looked at; pushToGithub
\* resolves and handlePushToGithub reports success
refUpdateReturns ==
    /\ pushPc = "refUpdate"
    /\ \E o \in Outcomes :
        /\ (o = "ok") => WellFormed(pending)
        /\ IF o # "throw"
           THEN /\ remoteRef' = IF o = "ok" THEN pending.arg ELSE remoteRef
                /\ callLog' = Append(callLog, Return("refUpdate", o, remoteRef'))
                /\ pushResult' = "success"
                /\ logs' = Append(logs, "Successfully pushed to GitHub!")
                /\ isPushing' = FALSE
                /\ pushPc' = "idle"
           ELSE /\ Rejected
                /\ callLog' = Append(callLog, Return("refUpdate", o, UNDEFINED))
                /\ UNCHANGED remoteRef
    /\ UNCHANGED << finalFiles, githubToken, showTokenInput, repoData,
                    latestCommitSha, baseTreeSha, treeItems, blobQueue, treeSha,
                    createCalls, createdBefore, remoteRepo, treeVars, aiVars, restVars >>

PushNext ==
    \/ ClickPushToGithub
    \/ TypeToken
    \/ CancelToken
    \/ TryAgain
    \/ handlePushToGithub
    \/ createRepositoryReturns
    \/ refReadReturns
    \/ commitReadReturns
    \/ blobCreateReturns
    \/ treeCreateReturns
    \/ commitCreateReturns
    \/ refUpdateReturns

SpecPush == PushInit /\ [][PushNext]_vars

----------------------------------------------------------------------------
(* Properties of the push.                                                 *)

IsCall(e) == e.ev = "call"
IsReturn(e) == e.ev = "return"

\* the calls of the log, in order
CallsOf(log) == SelectSeq(log, IsCall)
\* the returns of the log, in order
ReturnsOf(log) == SelectSeq(log, IsReturn)

\* every response so far was a success response
AllOk(log) == \A i \in 1..Len(log) : IsReturn(log[i]) => log[i].outcome = "ok"

\* calls and returns alternate, a return belonging to the call before it: no
\* call starts before the previous one has returned
Sequential(log) ==
    \A i \in 1..Len(log) :
        IF i % 2 = 1 THEN IsCall(log[i])
        ELSE IsReturn(log[i]) /\ log[i].op = log[i-1].op

\* the operations of a complete push of a tree with n File nodes
ExpectedOps(n) ==
    << "refRead", "commitRead" >> \o [ i \in 1..n |-> "blobCreate" ]
        \o << "treeCreate", "commitCreate", "refUpdate" >>

IsPrefix(p, q) == Len(p) <= Len(q) /\ SubSeq(q, 1, Len(p)) = p

\* the File leaves of the pushed tree, depth first
Leaves == FlattenLevel(finalFiles, << >>)

\* the sha the k-th call of the log came back with
ReturnedSha(log, k) == ReturnsOf(log)[k].sha

\* C4: in a run of pushToGithub over a tree with N File nodes in which all
\* calls succeed, the calls are one ref-read, one commit-read, N blob-creates
\* (one per File node, depth first), one tree-create, one commit-create, one
\* ref-update, in this order, each starting after the one before has returned;
\* the tree-create has the tree sha read from the head commit as base and the
\* commit-create the head commit sha as its only parent.
C4_PushCallOrder ==
    AllOk(callLog) =>
        LET calls == CallsOf(callLog)
            ops   == [ i \in 1..Len(calls) |-> calls[i].op ]
            n     == Len(Leaves)
        IN  /\ Sequential(callLog)
            /\ IsPrefix(ops, ExpectedOps(n))
            /\ pushResult = "success" => ops = ExpectedOps(n)
            /\ \A i \in 1..Len(calls) :
                 /\ calls[i].op = "commitRead" => calls[i].arg = ReturnedSha(callLog, 1)
                 /\ calls[i].op = "blobCreate" => calls[i].arg = Leaves[i-2].content
                 /\ calls[i].op = "treeCreate" =>
                        calls[i].arg.base_tree = ReturnedSha(callLog, 2)
                 /\ calls[i].op = "commitCreate" =>
                        /\ calls[i].arg.parents = << ReturnedSha(callLog, 1) >>
                        /\ calls[i].arg.tree = ReturnedSha(callLog, i-1)
                 /\ calls[i].op = "refUpdate" => calls[i].arg = ReturnedSha(callLog, i-1)

\* a push of a tree with two File nodes that went through with every call
\* answered by a success response
C4_Witness ==
    /\ pushResult = "success" /\ AllOk(callLog)
    /\ Len(Leaves) = 2 /\ Len(callLog) = 14
    /\ remoteRef = NewCommit

\* C5: if the tree-create comes back with a non-success response, pushToGithub
\* aborts before the ref-update: no ref-update call is made.
C5_AbortBeforeRefUpdate ==
    (\E i \in 1..Len(callLog) :
        IsReturn(callLog[i]) /\ callLog[i].op = "treeCreate" /\ callLog[i].outcome = "fail")
    => ~ \E j \in 1..Len(callLog) : IsCall(callLog[j]) /\ callLog[j].op = "refUpdate"

\* C6: pushToGithub resolves, and handlePushToGithub records success and logs
\* "Successfully pushed to GitHub!", only if every step came back with a
\* success response and the branch was updated.
C6_SuccessOnlyIfAllStepsOk ==
    (pushResult = "success" \/ \E i \in 1..Len(logs) : logs[i] = "Successfully pushed to GitHub!")
    => (AllOk(callLog) /\ remoteRef = NewCommit)

\* the entries C7 expects: one per File node, with its full path and the sha
\* its blob-create came back with (the blob-creates are calls 3, 4, ...)
ExpectedTreeItems(log) ==
    [ i \in 1..Len(Leaves) |->
        [ path |-> Leaves[i].path, mode |-> "100644", type |-> "blob",
          sha  |-> ReturnedSha(log, i + 2) ] ]

\* C7: the entries sent to tree-create are exactly one per File node, each
\* with mode 100644, type blob, the sha its blob-create returned and the path
\* made of the names of its ancestor folders and its own name, slash-joined.
C7_TreeEntries ==
    \A i \in 1..Len(callLog) :
        (IsCall(callLog[i]) /\ callLog[i].op = "treeCreate")
        => callLog[i].arg.tree = ExpectedTreeItems(callLog)

\* C8: once createRepository has succeeded in a wizard run, a retry after a
\* failed push does not call createRepository again.
C8_NoSecondCreate ==
    createdBefore = 0

----------------------------------------------------------------------------
(* The AI client adapter (services/aiService.ts; refactorCode and the      *)
(* second revision of generateFileTree in services/githubService.ts        *)
(* 342-478, 583-617) as the wizard of unnamed/part_000 drives it.          *)
(*                                                                         *)
(* A string is the sequence of its pieces: a piece is a run of characters  *)
(* that the code never takes apart ("\n", "index", ".", "ts").             *)
(* A JavaScript value is a record tagged with its kind.                    *)

\* largest number of refactor requests in one wizard run
MaxRefactors == 1

jsUndefined == [ kind |-> "undefined" ]
jsNull      == [ kind |-> "null" ]
jsString(s) == [ kind |-> "string", str |-> s ]
jsNumber(n) == [ kind |-> "number", num |-> n ]
jsArray(a)  == [ kind |-> "array", items |-> a ]
jsObject(e) == [ kind |-> "object", entries |-> e ]
\* one property of an object literal
prop(k, v)  == [ key |-> k, value |-> v ]

\* how an expression completes: with a value, or by throwing
Ok(v) == [ threw |-> FALSE, value |-> v ]
Threw == [ threw |-> TRUE, value |-> << >> ]

\* v.key: undefined unless v is an object that has the property
getProp(v, key) ==
    IF v.kind = "object" /\ \E i \in 1..Len(v.entries) : v.entries[i].key = key
    THEN v.entries[CHOOSE i \in 1..Len(v.entries) :
                      /\ v.entries[i].key = key
                      /\ \A j \in (i+1)..Len(v.entries) : v.entries[j].key # key].value
    ELSE jsUndefined

\* the condition  v && ...
truthy(v) ==
    CASE v.kind \in { "undefined", "null" } -> FALSE
      [] v.kind = "string" -> v.str # << >>
      [] v.kind = "number" -> v.num # 0
      [] OTHER -> TRUE

\* the lower-case form of a piece
lowerPiece(p) ==
    CASE p = "React" -> "react"
      [] p = "Node.js" -> "node.js"
      [] p = "TypeScript" -> "typescript"
      [] p = "JavaScript" -> "javascript"
      [] p = "Python" -> "python"
      [] p = "Interface " -> "interface "
      [] OTHER -> p

\* input.toLowerCase() of a string
lowerInput(s) == [ i \in 1..Len(s) |-> lowerPiece(s[i]) ]

\* v.toLowerCase(): a TypeError unless v is a string
toLowerCase(v) ==
    IF v.kind = "string" THEN Ok(jsString(lowerInput(v.str))) ELSE Threw

\* lower.includes(kw), kw a piece
includes(s, kw) == \E i \in 1..Len(s) : s[i] = kw

----------------------------------------------------------------------------
(* Response texts: fence stripping, trim, JSON.parse.                      *)

\* the markdown fence of three backquotes is written <fence>
FenceJson == "<fence>json"
FenceTs == "<fence>typescript"
Fence == "<fence>"
NL == "\n"

isFence(p) == p = FenceJson \/ p = Fence
notFence(p) == ~isFence(p)

\* text.replace(/```json/g, '').replace(/```/g, '')
stripFences(text) == SelectSeq(text, notFence)

RECURSIVE stripFencesNL(_)
\* text.replace(/```json\n?|\n?```/g, ''): a newline before "```json" is taken
\* by the second alternative, which leaves "json" behind
stripFencesNL(text) ==
    IF text = << >> THEN << >>
    ELSE IF text[1] = FenceJson
    THEN IF Len(text) >= 2 /\ text[2] = NL
         THEN stripFencesNL(SubSeq(text, 3, Len(text)))
         ELSE stripFencesNL(Tail(text))
    ELSE IF text[1] = NL /\ Len(text) >= 2 /\ text[2] = Fence
    THEN stripFencesNL(SubSeq(text, 3, Len(text)))
    ELSE IF text[1] = NL /\ Len(text) >= 2 /\ text[2] = FenceJson
    THEN << "json" >> \o stripFencesNL(SubSeq(text, 3, Len(text)))
    ELSE IF text[1] = Fence
    THEN stripFencesNL(Tail(text))
    ELSE << text[1] >> \o stripFencesNL(Tail(text))

RECURSIVE stripCodeFences(_)
\* text.replace(/```(typescript|javascript|tsx|jsx|json)?\n?|\n?```/g, '')
stripCodeFences(text) ==
    IF text = << >> THEN << >>
    ELSE IF text[1] \in { FenceJson, FenceTs, Fence }
    THEN IF Len(text) >= 2 /\ text[2] = NL
         THEN stripCodeFences(SubSeq(text, 3, Len(text)))
         ELSE stripCodeFences(Tail(text))
    ELSE IF text[1] = NL /\ Len(text) >= 2 /\ text[2] = Fence
    THEN stripCodeFences(SubSeq(text, 3, Len(text)))
    ELSE IF text[1] = NL /\ Len(text) >= 2 /\ text[2] = FenceJson
    THEN << "json" >> \o stripCodeFences(SubSeq(text, 3, Len(text)))
    ELSE IF text[1] = NL /\ Len(text) >= 2 /\ text[2] = FenceTs
    THEN << "typescript" >> \o stripCodeFences(SubSeq(text, 3, Len(text)))
    ELSE << text[1] >> \o stripCodeFences(Tail(text))

isSpace(p) == p = NL \/ p = " "

RECURSIVE trimStart(_)
trimStart(text) ==
    IF text # << >> /\ isSpace(text[1]) THEN trimStart(Tail(text)) ELSE text

RECURSIVE trimEnd(_)
trimEnd(text) ==
    IF text # << >> /\ isSpace(text[Len(text)])
    THEN trimEnd(SubSeq(text, 1, Len(text) - 1)) ELSE text

\* text.trim()
trim(text) == trimEnd(trimStart(text))

\* the detection object the prompt asks for
detection(language, framework, confidence, projectType, detectedFiles) ==
    jsObject(<< prop(<< "language" >>, jsString(<< language >>)),
                prop(<< "framework" >>, jsString(<< framework >>)),
                prop(<< "confidence" >>, jsNumber(confidence)),
                prop(<< "suggestedProjectType" >>, jsString(<< projectType >>)),
                prop(<< "detectedFiles" >>, jsNumber(detectedFiles)) >>)

\* JSON texts the endpoint may answer with
NullJson == "null"
ArrayJson == "[\"x\"]"
EmptyObjectJson == "{}"
DetectionJson == "{\"language\":\"TypeScript\",\"framework\":\"React\",\"confidence\":90,\"suggestedProjectType\":\"Frontend\",\"detectedFiles\":3}"
PartialDetectionJson == "{\"language\":\"Python\",\"confidence\":150}"
PathMapJson == "{\"package.json\":\"{}\",\"src/index.ts\":\"x\"}"
NestedMapJson == "{\"README.md\":{\"text\":\"x\"}}"

JsonTexts ==
    { NullJson, ArrayJson, EmptyObjectJson, DetectionJson, PartialDetectionJson,
      PathMapJson, NestedMapJson }

\* the value a JSON text denotes
jsonValue(p) ==
    CASE p = NullJson -> jsNull
      [] p = ArrayJson -> jsArray(<< jsString(<< "x" >>) >>)
      [] p = EmptyObjectJson -> jsObject(<< >>)
      [] p = DetectionJson -> detection("TypeScript", "React", 90, "Frontend", 3)
      [] p = PartialDetectionJson ->
            jsObject(<< prop(<< "language" >>, jsString(<< "Python" >>)),
                        prop(<< "confidence" >>, jsNumber(150)) >>)
      [] p = PathMapJson ->
            jsObject(<< prop(<< "package", ".", "json" >>, jsString(<< "{}" >>)),
                        prop(<< "src", "/", "index", ".", "ts" >>, jsString(<< "x" >>)) >>)
      [] p = NestedMapJson ->
            jsObject(<< prop(<< "README", ".", "md" >>,
                             jsObject(<< prop(<< "text" >>, jsString(<< "x" >>)) >>)) >>)

\* JSON.parse(jsonStr): a SyntaxError unless the text is one JSON text
JSONparse(text) ==
    IF Len(text) = 1 /\ text[1] \in JsonTexts THEN Ok(jsonValue(text[1])) ELSE Threw

\* a response wrapped in a markdown code block
fenced(p) == << FenceJson, NL, p, NL, Fence >>

\* what the endpoint may answer a detection prompt with
DetectionTexts ==
    { << DetectionJson >>, fenced(DetectionJson), << NullJson >>, << ArrayJson >>,
      << EmptyObjectJson >>, << PartialDetectionJson >>,
      << "I could not analyze this snippet." >> }

\* what the endpoint may answer a generation prompt with
TreeTexts ==
    { << PathMapJson >>, fenced(PathMapJson), << NullJson >>, << ArrayJson >>,
      << EmptyObjectJson >>, << NestedMapJson >>,
      << "Here are your files:", NL, PathMapJson >> }

\* what the endpoint may answer a refactor prompt with
RefactorTexts ==
    { << "const x: number = 1" >>,
      << FenceTs, NL, "const x: number = 1", NL, Fence >> }

\* the snippets the user may paste
RawInputs ==
    { << "const x = 1" >>, << "import ", "React" >>, << "interface ", "Props" >> }

\* the instructions the user may give: the JS -> TS shortcut and a typed one
Instructions ==
    { << "Convert this file to TypeScript. Use proper types and interfaces." >>,
      << "Convert to TypeScript" >> }

----------------------------------------------------------------------------
(* The fallbacks: mockDetect, mockGenerate, generateGithubNodes            *)
(* (services/aiService.ts 245-344).                                        *)

\* the heuristic detector
mockDetect(input) ==
    LET lower    == lowerInput(input)
        react    == includes(lower, "react") \/ includes(lower, "jsx")
        typed    == \/ includes(lower, "interface ")
                    \/ includes(lower, "type ")
                    \/ includes(lower, ": string")
        language == IF typed THEN "TypeScript" ELSE "JavaScript"
    IN  IF react
        THEN detection(language, "React", 92, "Frontend", 3)
        ELSE detection(language, "Node.js", 65, "Backend", 1)

\* a File node of the template generator
fileNode(id, name, language, content) ==
    [ name |-> name, type |-> FILE, content |-> jsString(content),
      id |-> id, language |-> language ]

\* a Folder node of the template generator
folderNode(id, name, children) ==
    [ name |-> name, type |-> FOLDER, children |-> children, id |-> id ]

\* generateGithubNodes without its early  return null
generateGithubNodesAlways(c) ==
    << folderNode(<< "github-folder" >>, << ".github" >>, << >>) >>

\* the .github folder: << >> for null, else the one node
generateGithubNodes(c) ==
    IF /\ c.ciProvider # "github"
       /\ c.githubWorkflows = {}
       /\ c.githubTemplates = {}
       /\ c.githubCommunity = {}
       /\ ~c.githubCodeowners
    THEN << >>
    ELSE LET workflowsChildren ==
                 IF c.ciProvider = "github" \/ "ci" \in c.githubWorkflows
                 THEN << fileNode(<< "ci-yml" >>, << "ci", ".", "yml" >>, << "yaml" >>,
                                  << "name: CI ..." >>) >>
                 ELSE << >>
             workflows ==
                 IF Len(workflowsChildren) > 0
                 THEN << folderNode(<< "workflows" >>, << "workflows" >>,
                                    workflowsChildren) >>
                 ELSE << >>
             issueTemplates ==
                 IF "bug_report" \in c.githubTemplates
                 THEN << fileNode(<< "bug-report" >>, << "bug_report", ".", "md" >>,
                                  << "markdown" >>, << "--- name: Bug report ..." >>) >>
                 ELSE << >>
             templates ==
                 IF Len(issueTemplates) > 0
                 THEN << folderNode(<< "issue-templates" >>, << "ISSUE_TEMPLATE" >>,
                                    issueTemplates) >>
                 ELSE << >>
             community ==
                 IF "contributing" \in c.githubCommunity
                 THEN << fileNode(<< "contributing" >>, << "CONTRIBUTING", ".", "md" >>,
                                  << "markdown" >>, << "# Contributing" >>) >>
                 ELSE << >>
         IN  << folderNode(<< "github-folder" >>, << ".github" >>,
                           workflows \o templates \o community) >>

\* the template fallback generator: throws a TypeError when config.framework
\* or config.language is not a string
mockGenerate(c, input) ==
    LET framework == toLowerCase(c.framework)
        language  == toLowerCase(c.language)
        ext       == IF c.language = jsString(<< "TypeScript" >>) THEN "ts" ELSE "js"
        reactExt  == IF c.language = jsString(<< "TypeScript" >>) THEN "tsx" ELSE "jsx"
    IN  IF framework.threw \/ language.threw THEN Threw
        ELSE Ok(
          << fileNode(<< "pkg-json" >>, << "package", ".", "json" >>, << "json" >>,
                      << "{name: " >> \o c.name.str
                         \o << ", version: 0.1.0, description: " >> \o c.description.str
                         \o << ", scripts: {dev: vite, build: vite build}, dependencies: {" >>
                         \o framework.value.str \o << ": ^latest}}" >>),
             fileNode(<< "readme" >>, << "README", ".", "md" >>, << "markdown" >>,
                      << "# " >> \o c.name.str \o << NL, NL >> \o c.description.str
                         \o << NL, NL, "Generated by RepoGen (Offline Mode)." >>) >>
          \o generateGithubNodes(c)
          \o << folderNode(<< "src" >>, << "src" >>,
                  << fileNode(<< "entry" >>,
                       << "index", ".",
                          IF c.framework = jsString(<< "React" >>) THEN reactExt ELSE ext >>,
                       language.value.str,
                       << "// Offline Mode Entry", NL, NL >> \o input) >>) >>)

----------------------------------------------------------------------------
(* detectStack and generateFileTree after the endpoint has answered.       *)

\* how the wait for the endpoint ended: "nokey" (no call was made),
\* "text" (a response), "throw" (the call rejected), "timeout"
Answer(how, text) == [ how |-> how, text |-> text ]
NoAnswer == Answer("none", << >>)

\* the value detectStack(input) resolves with
detectStack(input, answer) ==
    IF answer.how = "text"
    THEN LET parsed == JSONparse(trim(stripFences(answer.text)))
         IN  IF parsed.threw THEN mockDetect(input) ELSE parsed.value
    ELSE mockDetect(input)

RECURSIVE objectEntriesOf(_, _)
\* Object.entries of an array or of a string: index keys
objectEntriesOf(items, k) ==
    IF k = 0 THEN << >>
    ELSE Append(objectEntriesOf(items, k-1),
                [ path |-> << ToString(k-1) >>, content |-> items[k] ])

\* Object.entries(v) as [path, content]; v is neither null nor undefined
objectEntries(v) ==
    CASE v.kind = "object" ->
            [ i \in 1..Len(v.entries) |->
                [ path |-> v.entries[i].key, content |-> v.entries[i].value ] ]
      [] v.kind = "array" -> objectEntriesOf(v.items, Len(v.items))
      [] v.kind = "string" ->
            objectEntriesOf([ i \in 1..Len(v.str) |-> jsString(<< v.str[i] >>) ],
                            Len(v.str))
      [] OTHER -> << >>

\* const addFile = (name, content) => root.push({...})
addFile(name, content) ==
    [ name |-> name, type |-> FILE, content |-> content,
      id |-> ReplaceAll(name, ".", "-"), language |-> LastExt(name) ]

\* root.find(f => f.name === name) is defined
hasName(root, name) == \E i \in 1..Len(root) : root[i].name = name

\* f.name.match(/index\.(ts|js|tsx|jsx)/)
matchesIndex(name) ==
    \E i \in 1..(Len(name) - 2) :
        /\ name[i] = "index" /\ name[i+1] = "."
        /\ name[i+2] \in { "ts", "js", "tsx", "jsx", "json" }

\* root.findIndex(f => f.name.match(...)) + 1
entryFileIndex(root) ==
    IF \E i \in 1..Len(root) : matchesIndex(root[i].name)
    THEN CHOOSE i \in 1..Len(root) :
            /\ matchesIndex(root[i].name)
            /\ \A j \in 1..(i-1) : ~matchesIndex(root[j].name)
    ELSE 0

\* aiService.ts 189-235: the tree built from the parsed object
aiServiceTree(c, v) ==
    LET es         == objectEntries(v)
        generated  == [ i \in 1..Len(es) |-> addFile(es[i].path, es[i].content) ]
        withGithub == generated \o generateGithubNodes(c)
        withDocker ==
            IF c.includeDocker /\ ~hasName(withGithub, << "Dockerfile" >>)
            THEN Append(withGithub,
                        addFile(<< "Dockerfile" >>, jsString(<< "FROM node:18-alpine ..." >>)))
            ELSE withGithub
        idx        == entryFileIndex(withDocker)
    IN  IF /\ c.projectType = jsString(<< "Frontend" >>)
           /\ ~hasName(withDocker, << "src" >>)
           /\ idx # 0
        THEN Append(SubSeq(withDocker, 1, idx - 1)
                       \o SubSeq(withDocker, idx + 1, Len(withDocker)),
                    folderNode(<< "src" >>, << "src" >>, << withDocker[idx] >>))
        ELSE withDocker

\* githubService.ts 433-467: the tree built from the parsed object
githubServiceTree(v) ==
    LET es == objectEntries(v) IN convertEntries(es, Len(es))

\* const jsonStr = text.replace(...).trim() of the bundled revision
jsonStr(b, text) ==
    IF b = "aiService" THEN trim(stripFences(text)) ELSE trim(stripFencesNL(text))

\* how generateFileTree(c, input) settles: the parsed value's tree, or the
\* template fallback from the catch block, which may itself throw
generateFileTree(b, c, input, answer) ==
    IF answer.how = "text"
    THEN LET parsed == JSONparse(jsonStr(b, answer.text))
         IN  IF parsed.threw \/ parsed.value.kind = "null"
             THEN mockGenerate(c, input)
             ELSE IF b = "aiService"
                  THEN Ok(aiServiceTree(c, parsed.value))
                  ELSE Ok(githubServiceTree(parsed.value))
    ELSE mockGenerate(c, input)

----------------------------------------------------------------------------
(* StepPreview helpers.                                                    *)

RECURSIVE findFirstFileFrom(_, _)
\* findFirstFile(nodes) from node k on: the index path of the first File node,
\* depth first, << >> for null
findFirstFileFrom(nodes, k) ==
    IF k > Len(nodes) THEN << >>
    ELSE IF nodes[k].type = FILE THEN << k >>
    ELSE LET found == findFirstFileFrom(nodes[k].children, 1)
         IN  IF found # << >> THEN << k >> \o found
             ELSE findFirstFileFrom(nodes, k + 1)

findFirstFile(nodes) == findFirstFileFrom(nodes, 1)

RECURSIVE nodeAt(_, _)
\* the node an index path selects
nodeAt(nodes, sel) ==
    IF Len(sel) = 1 THEN nodes[sel[1]]
    ELSE nodeAt(nodes[sel[1]].children, Tail(sel))

RECURSIVE setNodeAt(_, _, _)
\* the tree with the selected node replaced
setNodeAt(nodes, sel, node) ==
    IF Len(sel) = 1 THEN [ nodes EXCEPT ![sel[1]] = node ]
    ELSE [ nodes EXCEPT ![sel[1]].children = setNodeAt(@, Tail(sel), node) ]

RECURSIVE joinTexts(_)
RECURSIVE toText(_)
\* `${v}`
toText(v) ==
    CASE v.kind = "string" -> v.str
      [] v.kind = "number" -> << ToString(v.num) >>
      [] v.kind = "null" -> << "null" >>
      [] v.kind = "undefined" -> << "undefined" >>
      [] v.kind = "array" -> joinTexts(v.items)
      [] OTHER -> << "[object Object]" >>

joinTexts(items) ==
    IF Len(items) = 0 THEN << >>
    ELSE IF Len(items) = 1 THEN toText(items[1])
    ELSE toText(items[1]) \o << "," >> \o joinTexts(Tail(items))

\* name.endsWith('.js') || name.endsWith('.jsx')
endsWithJs(name) ==
    Len(name) >= 2 /\ name[Len(name) - 1] = "." /\ name[Len(name)] \in { "js", "jsx" }

\* name.replace('.js', ...): the first "." followed by a piece that starts
\* with the extension, exts mapping each such piece to what it becomes
replaceExt(name, exts) ==
    IF \E i \in 1..(Len(name) - 1) : name[i] = "." /\ name[i+1] \in DOMAIN exts
    THEN LET i == CHOOSE i \in 1..(Len(name) - 1) :
                    /\ name[i] = "." /\ name[i+1] \in DOMAIN exts
                    /\ \A j \in 1..(i-1) : ~(name[j] = "." /\ name[j+1] \in DOMAIN exts)
         IN  [ name EXCEPT ![i+1] = exts[name[i+1]] ]
    ELSE name

\* name.replace('.js', '.ts').replace('.jsx', '.tsx')
renameToTs(name) ==
    replaceExt(replaceExt(name, [ js |-> "ts", jsx |-> "tsx", json |-> "tson" ]),
               [ jsx |-> "tsx" ])

\* handleRefactor 168-175: the selected node after the in-place update
refactoredNode(node, newContent, instruction) ==
    IF includes(instruction, "Convert to TypeScript") /\ endsWithJs(node.name)
    THEN [ node EXCEPT !.content = newContent, !.name = renameToTs(node.name),
                       !.language = << "typescript" >> ]
    ELSE [ node EXCEPT !.content = newContent ]

\* refactorCode without a key: the passthrough
passthrough(code, instruction) ==
    jsString(<< "// AI Refactoring Unavailable (No API Key)", NL, "// Instruction: " >>
             \o instruction \o << NL, NL >> \o toText(code))

----------------------------------------------------------------------------
(* The wizard: one forward run from Upload to Generate.                    *)

\* the configuration the wizard starts from
INITIAL_CONFIG ==
    [ name             |-> jsString(<< "my-project" >>),
      description      |-> jsString(<< "A new project" >>),
      language         |-> jsString(<< "TypeScript" >>),
      framework        |-> jsString(<< "React" >>),
      projectType      |-> jsString(<< "Frontend" >>),
      useTypeScript    |-> TRUE,
      includeDocker    |-> FALSE,
      ciProvider       |-> "none",
      githubWorkflows  |-> {},
      githubTemplates  |-> {},
      githubCommunity  |-> {},
      githubCodeowners |-> FALSE ]

\* getApiKey() with the environment asked before the runtime key
getApiKeyEnvFirst ==
    IF envApiKey # "" THEN envApiKey
    ELSE IF viteApiKey # "" THEN viteApiKey
    ELSE runtimeApiKey

\* getApiKey(): the runtime key first, then process.env.GEMINI_API_KEY,
\* then import.meta.env.VITE_GEMINI_API_KEY, then ''
getApiKey ==
    IF runtimeApiKey # "" THEN runtimeApiKey
    ELSE IF envApiKey # "" THEN envApiKey
    ELSE viteApiKey

\* no refactorCode call made yet
NoOutcome == [ how |-> "none", settled |-> "none", code |-> jsUndefined,
               value |-> jsUndefined ]

AiInit ==
    /\ runtimeApiKey \in { "", "user-key" }
    /\ envApiKey \in { "", "env-key" }
    /\ build \in { "aiService", "githubService" }
    /\ step = 0 /\ rawInput = << >> /\ config = INITIAL_CONFIG
    /\ generatedFiles = << >>
    /\ detectionLoading = FALSE /\ detectionResult = jsNull
    /\ previewLoading = FALSE /\ previewFiles = << >>
    /\ selectedFile = << >> /\ isRefactoring = FALSE
    /\ detectPc = "idle" /\ detectAnswer = NoAnswer
    /\ genPc = "idle" /\ genAnswer = NoAnswer /\ genConfig = INITIAL_CONFIG
    /\ genValue = << >>
    /\ refPc = "idle" /\ refInstruction = << >> /\ refactors = 0
    /\ refOutcome = NoOutcome
    /\ endpointCalls = << >>
    /\ files = << >> /\ fileNodes = << >> /\ convPc = "off"
    /\ PushOff
    /\ RestOff

\* handleUploadNext(input); StepDetection mounts and its effect calls
\* detectStack(rawInput), which waits for MOCK_DELAY or for the endpoint
handleUploadNext ==
    /\ step = 0
    /\ \E input \in RawInputs : rawInput' = input
    /\ step' = 1
    /\ detectionLoading' = TRUE /\ detectionResult' = jsNull
    /\ IF getApiKey = ""
       THEN /\ detectPc' = "mockDelay"
            /\ detectAnswer' = Answer("nokey", << >>)
            /\ UNCHANGED endpointCalls
       ELSE /\ detectPc' = "awaitAi"
            /\ detectAnswer' = NoAnswer
            /\ endpointCalls' = Append(endpointCalls, "detect")
    /\ UNCHANGED << keyVars, config, generatedFiles, previewVars, genVars, refVars,
                    treeVars, pushVars, restVars >>

\* detectStack(rawInput).then(res => { if (isMounted) {...} })
detectSettles(res) ==
    /\ detectPc' = "resolved"
    /\ IF step = 1
       THEN detectionResult' = res /\ detectionLoading' = FALSE
       ELSE UNCHANGED << detectionResult, detectionLoading >>
    /\ UNCHANGED << keyVars, appVars, previewVars, genVars, refVars, endpointCalls,
                    treeVars, pushVars, restVars >>

\* the MOCK_DELAY timer fires: return mockDetect(input)
mockDelayElapses ==
    /\ detectPc = "mockDelay"
    /\ UNCHANGED detectAnswer
    /\ detectSettles(detectStack(rawInput, detectAnswer))

\* model.generateContent(prompt) resolves with a response
detectAiResponds ==
    /\ detectPc = "awaitAi"
    /\ \E text \in DetectionTexts :
          /\ detectAnswer' = Answer("text", text)
          /\ detectSettles(detectStack(rawInput, Answer("text", text)))

\* model.generateContent(prompt) rejects, or response.text() throws
detectAiThrows ==
    /\ detectPc = "awaitAi"
    /\ detectAnswer' = Answer("throw", << >>)
    /\ detectSettles(detectStack(rawInput, Answer("throw", << >>)))

\* onClick={() => result && onNext(result)}: handleDetectionNext(result)
ClickConfigureRepo ==
    /\ step = 1 /\ ~detectionLoading
    /\ truthy(detectionResult)
    /\ config' = [ config EXCEPT
                     !.language      = getProp(detectionResult, << "language" >>),
                     !.framework     = getProp(detectionResult, << "framework" >>),
                     !.projectType   = getProp(detectionResult, << "suggestedProjectType" >>),
                     !.useTypeScript = getProp(detectionResult, << "language" >>)
                                          = jsString(<< "TypeScript" >>) ]
    /\ step' = 2
    /\ UNCHANGED << keyVars, rawInput, generatedFiles, detectionVars, previewVars,
                    genVars, refVars, endpointCalls, treeVars, pushVars, restVars >>

\* StepConfig: handleChange('ciProvider', ci), handleChange('includeDocker', checked)
handleChange ==
    /\ step = 2
    /\ \/ \E ci \in { "github", "none" } :
             ci # config.ciProvider /\ config' = [ config EXCEPT !.ciProvider = ci ]
       \/ config' = [ config EXCEPT !.includeDocker = ~@ ]
    /\ UNCHANGED << keyVars, step, rawInput, generatedFiles, detectionVars, previewVars,
                    genVars, refVars, endpointCalls, treeVars, pushVars, restVars >>

\* loadTree after  await generateFileTree(config, rawInput): a rejection is
\* not caught, and leaves the component as it was mounted
loadTreeSettles(out) ==
    IF out.threw
    THEN /\ genPc' = "rejected" /\ genValue' = << >>
         /\ previewLoading' = TRUE /\ previewFiles' = << >>
         /\ selectedFile' = << >> /\ isRefactoring' = FALSE
         /\ UNCHANGED generatedFiles
    ELSE /\ genPc' = "resolved" /\ genValue' = out.value
         /\ previewFiles' = out.value
         /\ generatedFiles' = out.value
         /\ selectedFile' = findFirstFile(out.value)
         /\ previewLoading' = FALSE /\ isRefactoring' = FALSE

\* handleConfigNext; StepPreview mounts and loadTree calls generateFileTree:
\* without a key it returns mockGenerate(config, rawInput) at once, with a key
\* it arms the 30 s timer and calls the endpoint
handleConfigNext ==
    /\ step = 2
    /\ step' = 3
    /\ genConfig' = config
    /\ IF getApiKey = ""
       THEN /\ genAnswer' = Answer("nokey", << >>)
            /\ loadTreeSettles(generateFileTree(build, config, rawInput,
                                                Answer("nokey", << >>)))
            /\ UNCHANGED endpointCalls
       ELSE /\ genAnswer' = NoAnswer
            /\ genPc' = "awaitAi" /\ genValue' = << >>
            /\ previewLoading' = TRUE /\ previewFiles' = << >>
            /\ selectedFile' = << >> /\ isRefactoring' = FALSE
            /\ endpointCalls' = Append(endpointCalls, "generate")
            /\ UNCHANGED generatedFiles
    /\ UNCHANGED << keyVars, rawInput, config, detectionVars, refVars,
                    treeVars, pushVars, restVars >>

\* generateFileTree's wait ends with the given answer
genSettles(answer) ==
    /\ genAnswer' = answer
    /\ loadTreeSettles(generateFileTree(build, genConfig, rawInput, answer))
    /\ UNCHANGED << keyVars, step, rawInput, config, detectionVars, genConfig,
                    refVars, endpointCalls, treeVars, pushVars, restVars >>

\* model.generateContent(prompt) wins the race with a response
genAiResponds ==
    /\ genPc = "awaitAi"
    /\ \E text \in TreeTexts : genSettles(Answer("text", text))

\* model.generateContent(prompt) rejects, or response.text() throws
genAiThrows ==
    /\ genPc = "awaitAi"
    /\ genSettles(Answer("throw", << >>))

\* timeoutPromise rejects after timeoutMs
genTimeout ==
    /\ genPc = "awaitAi"
    /\ genSettles(Answer("timeout", << >>))

\* handleRefactor 168-185 once refactorCode has resolved with newContent: the
\* selected node, which generatedFiles holds too, is updated in place
refactorApplies(newContent, instruction) ==
    LET updated == setNodeAt(generatedFiles, selectedFile,
                             refactoredNode(nodeAt(generatedFiles, selectedFile),
                                            newContent, instruction))
    IN  /\ generatedFiles' = updated
        /\ IF step = 3 THEN previewFiles' = updated ELSE UNCHANGED previewFiles
        /\ isRefactoring' = FALSE

\* a refactorCode(code, ...) call: how its wait ended ("nokey", "text",
\* "throw"; "none" while it waits), how the promise settled and with what
Outcome(how, settled, code, value) ==
    [ how |-> how, settled |-> settled, code |-> code, value |-> value ]

\* handleRefactor(instruction) from the JS -> TS and Apply buttons, both
\* disabled while isRefactoring: without a key refactorCode resolves at once
\* with the passthrough, with a key it calls the endpoint
handleRefactor ==
    /\ step = 3 /\ ~previewLoading /\ ~isRefactoring
    /\ refactors < MaxRefactors
    /\ selectedFile # << >>
    /\ truthy(nodeAt(generatedFiles, selectedFile).content)
    /\ refactors' = refactors + 1
    /\ \E instruction \in Instructions :
          /\ refInstruction' = instruction
          /\ IF getApiKey = ""
             THEN /\ refactorApplies(
                        passthrough(nodeAt(generatedFiles, selectedFile).content,
                                    instruction),
                        instruction)
                  /\ refPc' = "idle"
                  /\ refOutcome' =
                        Outcome("nokey", "resolved",
                                nodeAt(generatedFiles, selectedFile).content,
                                passthrough(nodeAt(generatedFiles, selectedFile).content,
                                            instruction))
                  /\ UNCHANGED endpointCalls
             ELSE /\ isRefactoring' = TRUE
                  /\ refPc' = "awaitAi"
                  /\ refOutcome' =
                        Outcome("none", "pending",
                                nodeAt(generatedFiles, selectedFile).content, jsUndefined)
                  /\ endpointCalls' = Append(endpointCalls, "refactor")
                  /\ UNCHANGED << generatedFiles, previewFiles >>
    /\ UNCHANGED << keyVars, step, rawInput, config, detectionVars, previewLoading,
                    selectedFile, genVars, treeVars, pushVars, restVars >>

\* model.generateContent(prompt) resolves: the stripped text is the new content
refactorResponds ==
    /\ refPc = "awaitAi"
    /\ \E text \in RefactorTexts :
          /\ refactorApplies(jsString(trim(stripCodeFences(text))), refInstruction)
          /\ refOutcome' = Outcome("text", "resolved", refOutcome.code,
                                   jsString(trim(stripCodeFences(text))))
    /\ refPc' = "idle"
    /\ UNCHANGED << keyVars, step, rawInput, config, detectionVars, previewLoading,
                    selectedFile, genVars, refInstruction, refactors, endpointCalls,
                    treeVars, pushVars, restVars >>

\* model.generateContent(prompt) rejects: refactorCode throws, handleRefactor
\* alerts
refactorThrows ==
    /\ refPc = "awaitAi"
    /\ refPc' = "idle"
    /\ isRefactoring' = FALSE
    /\ refOutcome' = Outcome("throw", "rejected", refOutcome.code, jsUndefined)
    /\ UNCHANGED << keyVars, appVars, detectionVars, previewLoading, previewFiles,
                    selectedFile, genVars, refInstruction, refactors, endpointCalls,
                    treeVars, pushVars, restVars >>

\* handlePreviewNext: "Generate Repository", disabled={loading || files.length === 0}
handlePreviewNext ==
    /\ step = 3 /\ ~previewLoading /\ Len(previewFiles) > 0
    /\ step' = 4
    /\ UNCHANGED << keyVars, rawInput, config, generatedFiles, detectionVars,
                    previewVars, genVars, refVars, endpointCalls, treeVars, pushVars, restVars >>

AiNext ==
    \/ handleUploadNext
    \/ mockDelayElapses
    \/ detectAiResponds
    \/ detectAiThrows
    \/ ClickConfigureRepo
    \/ handleChange
    \/ handleConfigNext
    \/ genAiResponds
    \/ genAiThrows
    \/ genTimeout
    \/ handleRefactor
    \/ refactorResponds
    \/ refactorThrows
    \/ handlePreviewNext

SpecAi == AiInit /\ [][AiNext]_vars

\* the timers of the adapter fire; the endpoint need not answer and the user
\* need not click
FairSpecAi ==
    SpecAi /\ WF_vars(mockDelayElapses) /\ WF_vars(genTimeout)

----------------------------------------------------------------------------
(* Properties of the AI adapter.                                           *)

\* the parsed JSON of a response text, as detectStack parses it
parsedOf(answer) == JSONparse(trim(stripFences(answer.text)))

\* the parsed JSON of a response text, as generateFileTree parses it
genParsedOf(answer) == JSONparse(jsonStr(build, answer.text))

isString(v) == v.kind = "string"
isNumber(v) == v.kind = "number"

\* the shape the detection prompt asks for
ConformsDetection(v) ==
    /\ v.kind = "object"
    /\ isString(getProp(v, << "language" >>))
    /\ isString(getProp(v, << "framework" >>))
    /\ isNumber(getProp(v, << "confidence" >>))
    /\ getProp(v, << "confidence" >>).num \in 0..100
    /\ getProp(v, << "suggestedProjectType" >>) \in
          { jsString(<< t >>) : t \in { "Frontend", "Backend", "Fullstack" } }
    /\ isNumber(getProp(v, << "detectedFiles" >>))
    /\ getProp(v, << "detectedFiles" >>).num >= 0

\* the shape the generation prompt asks for: paths mapped to content strings
ConformsTree(v) ==
    /\ v.kind = "object"
    /\ Len(v.entries) > 0
    /\ \A i \in 1..Len(v.entries) : isString(v.entries[i].value)

\* generateFileTree has settled on the fallback path: no key, a timeout, a
\* rejected call, or a text that is not JSON
FellBack ==
    /\ genPc \in { "resolved", "rejected" }
    /\ \/ genAnswer.how \in { "nokey", "timeout", "throw" }
       \/ genAnswer.how = "text" /\ genParsedOf(genAnswer).threw

\* C3: generateFileTree never rejects; on a timeout, a rejected call or an
\* unparseable text it resolves with exactly mockGenerate(config, rawInput),
\* and without a key it does so without any call to the endpoint.
C3_FallbackNeverRejects ==
    /\ genPc # "rejected"
    /\ FellBack =>
          /\ ~mockGenerate(genConfig, rawInput).threw
          /\ genValue = mockGenerate(genConfig, rawInput).value
    /\ (genPc = "resolved" /\ genAnswer.how = "nokey") =>
          ~includes(endpointCalls, "generate")

\* C9: whenever one of the three adapter operations waits for the endpoint it
\* eventually settles, and the Detection and Preview steps eventually leave
\* their loading state, also when the endpoint never answers.
C9_AdapterCallsSettle ==
    /\ (detectPc = "awaitAi") ~> (detectPc = "resolved")
    /\ (genPc = "awaitAi") ~> (genPc = "resolved")
    /\ (refPc = "awaitAi") ~> (refPc = "idle")
    /\ detectionLoading ~> ~detectionLoading
    /\ previewLoading ~> ~previewLoading

\* C10: when the response text is valid JSON that deviates from the expected
\* shape, detectStack resolves with mockDetect(rawInput) and generateFileTree
\* with mockGenerate(config, rawInput): the deviating value is never handed on.
C10_DeviationFallsBack ==
    /\ ( /\ detectPc = "resolved" /\ detectAnswer.how = "text"
         /\ ~parsedOf(detectAnswer).threw
         /\ ~ConformsDetection(parsedOf(detectAnswer).value) )
       => detectionResult = mockDetect(rawInput)
    /\ ( /\ genPc \in { "resolved", "rejected" } /\ genAnswer.how = "text"
         /\ ~genParsedOf(genAnswer).threw
         /\ ~ConformsTree(genParsedOf(genAnswer).value) )
       => /\ genPc = "resolved"
          /\ ~mockGenerate(genConfig, rawInput).threw
          /\ genValue = mockGenerate(genConfig, rawInput).value

\* t occurs in s as one contiguous piece
containsSeq(s, t) ==
    \E i \in 0..(Len(s) - Len(t)) : SubSeq(s, i + 1, i + Len(t)) = t

\* s ends with t
endsWithSeq(s, t) ==
    Len(t) <= Len(s) /\ SubSeq(s, Len(s) - Len(t) + 1, Len(s)) = t

\* value is the text of code, unchanged, behind an annotation that names the
\* instruction
IsPassthrough(value, code, instruction) ==
    /\ value.kind = "string"
    /\ endsWithSeq(value.str, toText(code))
    /\ Len(value.str) > Len(toText(code))
    /\ containsSeq(SubSeq(value.str, 1, Len(value.str) - Len(toText(code))),
                   instruction)

\* C11: a refactor request that fails (no API key, or the AI call throws)
\* makes refactorCode resolve, not reject, with the original content unchanged
\* and annotated with the instruction.
C11_RefactorPassthrough ==
    refOutcome.how \in { "nokey", "throw" } =>
        /\ refOutcome.settled = "resolved"
        /\ IsPassthrough(refOutcome.value, refOutcome.code, refInstruction)

\* C27: every tree generateFileTree resolves with holds at least one File
\* node, and while the Preview step shows a settled generation its
\* "Generate Repository" button is enabled.
C27_TreeHasFile ==
    genPc = "resolved" =>
        /\ findFirstFile(genValue) # << >>
        /\ step = 3 => (~previewLoading /\ Len(previewFiles) > 0)


----------------------------------------------------------------------------
(* The heuristic detector and the template generator run on their own:     *)
(* services/aiService.ts 245-344 and services/mockAiWorker.ts 7-220, the   *)
(* config between them seeded by handleDetectionNext and edited by         *)
(* handleChange.                                                           *)

\* most handleChange calls between detection and generation
MaxEdits == 2

\* rawInput.slice(0, 200)
SliceLen == 200

\* the number of characters of a piece
charsOf(p) == Len(p)

\* the leading characters of a piece that a slice cuts through
Cut == "<cut>"

RECURSIVE charsIn(_, _, _)
\* the number of characters of the pieces a..b of s
charsIn(s, a, b) ==
    IF a > b THEN 0
    ELSE IF a = b THEN charsOf(s[a])
    ELSE LET mid == (a + b) \div 2
         IN  charsIn(s, a, mid) + charsIn(s, mid + 1, b)

RECURSIVE sliceIn(_, _, _, _)
\* the first n characters of the pieces a..b of s
sliceIn(s, a, b, n) ==
    IF a > b \/ n = 0 THEN << >>
    ELSE IF a = b THEN (IF charsOf(s[a]) <= n THEN << s[a] >> ELSE << Cut >>)
    ELSE LET mid == (a + b) \div 2
             left == charsIn(s, a, mid)
         IN  IF left <= n
             THEN SubSeq(s, a, mid) \o sliceIn(s, mid + 1, b, n - left)
             ELSE sliceIn(s, a, mid, n)

\* s.slice(0, n)
slice(s, n) == sliceIn(s, 1, Len(s), n)

\* the snippets given to the detectors: plain JavaScript, React, typed,
\* Python with and without React or typed text, and one of SliceLen + 1
\* characters
HeuristicInputs ==
    { << "const x = 1" >>,
      << "import ", "React" >>,
      << "interface ", "Props" >>,
      << "const name", ": string", "jsx" >>,
      << "def ", "main" >>,
      << "import ", "flask", "import ", "React" >>,
      << "django", "content_", "type ", "x" >>,
      [ i \in 1..(SliceLen + 1) |-> "x" ] }

\* detectStack of mockAiWorker.ts: the backend rule is tested last and
\* replaces the whole result
mockAiWorker_detectStack(input) ==
    LET lower    == lowerInput(input)
        react    == includes(lower, "react") \/ includes(lower, "jsx")
        typed    == \/ includes(lower, "interface ")
                    \/ includes(lower, "type ")
                    \/ includes(lower, ": string")
        backend  == \/ includes(lower, "django")
                    \/ includes(lower, "flask")
                    \/ includes(lower, "def ")
        language == IF typed THEN "TypeScript" ELSE "JavaScript"
    IN  IF backend
        THEN detection("Python", "Flask", 88, "Backend", 2)
        ELSE IF react
             THEN detection(language, "React", 92, "Frontend", 3)
             ELSE detection(language, "Node.js", 65, "Backend", 1)

\* config.author.replace(/\s+/g, '')
removeSpaces(s) == SelectSeq(s, LAMBDA p : ~isSpace(p))

\* the children of .github, in the order mockAiWorker.ts 75-177 pushes them
githubChildren(c) ==
    LET yml(id, name, content) ==
            fileNode(<< id >>, << name, ".", "yml" >>, << "yaml" >>, << content >>)
        md(id, name, content) ==
            fileNode(<< id >>, << name, ".", "md" >>, << "markdown" >>, content)
        workflowsChildren ==
            (IF c.ciProvider = "github" \/ "ci" \in c.githubWorkflows
             THEN << yml("ci-yml", "ci", "name: CI ...") >> ELSE << >>)
            \o (IF "release" \in c.githubWorkflows
                THEN << yml("release-yml", "release", "name: Release ...") >> ELSE << >>)
            \o (IF "codeql" \in c.githubWorkflows
                THEN << yml("codeql-yml", "codeql", "name: CodeQL ...") >> ELSE << >>)
            \o (IF "stale" \in c.githubWorkflows
                THEN << yml("stale-yml", "stale", "name: Close stale issues ...") >>
                ELSE << >>)
        issueTemplates ==
            (IF "bug_report" \in c.githubTemplates
             THEN << md("bug-report", "bug_report", << "--- name: Bug report ..." >>) >>
             ELSE << >>)
            \o (IF "feature_request" \in c.githubTemplates
                THEN << md("feature-request", "feature_request",
                           << "--- name: Feature request ..." >>) >>
                ELSE << >>)
    IN  (IF Len(workflowsChildren) > 0
         THEN << folderNode(<< "workflows" >>, << "workflows" >>, workflowsChildren) >>
         ELSE << >>)
        \o (IF "dependabot" \in c.githubWorkflows
            THEN << yml("dependabot-yml", "dependabot", "version: 2 ...") >> ELSE << >>)
        \o (IF Len(issueTemplates) > 0
            THEN << folderNode(<< "issue-templates" >>, << "ISSUE_TEMPLATE" >>,
                               issueTemplates) >>
            ELSE << >>)
        \o (IF "pull_request" \in c.githubTemplates
            THEN << md("pr-template", "pull_request_template",
                       << "## Description ..." >>) >>
            ELSE << >>)
        \o (IF "contributing" \in c.githubCommunity
            THEN << md("contributing", "CONTRIBUTING",
                       << "# Contributing to " >> \o toText(c.name)
                          \o << NL, NL, "Thank you for considering contributing! ..." >>) >>
            ELSE << >>)
        \o (IF "code_of_conduct" \in c.githubCommunity
            THEN << md("coc", "CODE_OF_CONDUCT",
                       << "# Contributor Covenant Code of Conduct ..." >>) >>
            ELSE << >>)
        \o (IF "security" \in c.githubCommunity
            THEN << md("security", "SECURITY", << "# Security Policy ..." >>) >>
            ELSE << >>)
        \o (IF "support" \in c.githubCommunity
            THEN << md("support", "SUPPORT", << "# Support ..." >>) >> ELSE << >>)
        \o (IF c.githubCodeowners
            THEN << fileNode(<< "codeowners" >>, << "CODEOWNERS" >>, << "plaintext" >>,
                             << "* @" >> \o removeSpaces(c.author.str)) >>
            ELSE << >>)

\* generateFileTree of mockAiWorker.ts: throws a TypeError when
\* config.framework, config.language or config.author (with CODEOWNERS on)
\* is not a string
mockAiWorker_generateFileTree(c, input) ==
    LET framework == toLowerCase(c.framework)
        language  == toLowerCase(c.language)
        ext       == IF c.language = jsString(<< "TypeScript" >>) THEN "ts" ELSE "js"
        reactExt  == IF c.language = jsString(<< "TypeScript" >>) THEN "tsx" ELSE "jsx"
    IN  IF \/ framework.threw \/ language.threw
           \/ (c.githubCodeowners /\ c.author.kind # "string")
        THEN Threw
        ELSE Ok(
          << fileNode(<< "pkg-json" >>, << "package", ".", "json" >>, << "json" >>,
                      << "{name: " >> \o toText(c.name)
                         \o << ", version: 0.1.0, description: " >> \o toText(c.description)
                         \o << ", scripts: {dev: vite, build: vite build, lint: eslint .}, dependencies: {" >>
                         \o framework.value.str \o << ": ^18.2.0}}" >>),
             fileNode(<< "readme" >>, << "README", ".", "md" >>, << "markdown" >>,
                      << "# " >> \o toText(c.name) \o << NL, NL >> \o toText(c.description)
                         \o << NL, NL, "## Getting Started", NL, NL, "<fence>bash", NL >>
                         \o toText(c.packageManager) \o << " install", NL >>
                         \o toText(c.packageManager) \o << " run dev", NL, "<fence>" >>) >>
          \o (IF c.includeDocker
              THEN << fileNode(<< "docker" >>, << "Dockerfile" >>, << "dockerfile" >>,
                               << "FROM node:18-alpine ..." >>) >>
              ELSE << >>)
          \o (IF Len(githubChildren(c)) > 0
              THEN << folderNode(<< "github-folder" >>, << ".github" >>,
                                 githubChildren(c)) >>
              ELSE << >>)
          \o << folderNode(<< "src-folder" >>, << "src" >>,
                  << fileNode(<< "entry" >>,
                       << "index", ".",
                          IF c.framework = jsString(<< "React" >>) THEN reactExt ELSE ext >>,
                       language.value.str,
                       << "// RepoGen: Auto-generated entry point", NL, NL >>
                          \o slice(input, SliceLen)
                          \o << "...", NL, NL, "// ... (rest of your code)" >>) >>
                  \o (IF c.includeTests
                      THEN << fileNode(<< "test" >>, << "App", ".", "test", ".", ext >>,
                                       language.value.str,
                                       << "test('renders correctly', ...);" >>) >>
                      ELSE << >>)) >>)

\* the fields of RepoConfig that only mockAiWorker.ts reads, with the values
\* INITIAL_CONFIG may give them
InitialConfigs ==
    { INITIAL_CONFIG @@ [ author         |-> jsString(author),
                          packageManager |-> jsString(<< "npm" >>),
                          includeTests   |-> tests ] :
        author \in { << >>, << "Jane", " ", "Doe" >> }, tests \in BOOLEAN }

\* no template generator has run
NoTree == [ threw |-> FALSE, value |-> << >> ]

HeurInit ==
    /\ hPc = "input"
    /\ hInput \in HeuristicInputs
    /\ hDetector = "none" /\ hResult = jsNull
    /\ hConfig \in InitialConfigs
    /\ hEdits = 0
    /\ hGenerator = "none" /\ hTree = NoTree
    /\ files = << >> /\ fileNodes = << >> /\ convPc = "off"
    /\ PushOff
    /\ AiOff
    /\ StoreOff
    /\ NavOff
    /\ StepsOff

\* mockDetect(input) of aiService.ts
mockDetectRuns ==
    /\ hPc = "input"
    /\ hResult' = mockDetect(hInput)
    /\ hDetector' = "aiService"
    /\ hPc' = "detected"
    /\ UNCHANGED << hInput, hConfig, hEdits, hGenerator, hTree,
                    treeVars, pushVars, aiVars, storeVars, navVars, stepVars >>

\* detectStack(input) of mockAiWorker.ts, after its delay
mockAiWorkerDetectRuns ==
    /\ hPc = "input"
    /\ hResult' = mockAiWorker_detectStack(hInput)
    /\ hDetector' = "mockAiWorker"
    /\ hPc' = "detected"
    /\ UNCHANGED << hInput, hConfig, hEdits, hGenerator, hTree,
                    treeVars, pushVars, aiVars, storeVars, navVars, stepVars >>

\* handleDetectionNext(result)
handleDetectionNext ==
    /\ hPc = "detected"
    /\ hConfig' = [ hConfig EXCEPT
                      !.language      = getProp(hResult, << "language" >>),
                      !.framework     = getProp(hResult, << "framework" >>),
                      !.projectType   = getProp(hResult, << "suggestedProjectType" >>),
                      !.useTypeScript = getProp(hResult, << "language" >>)
                                           = jsString(<< "TypeScript" >>) ]
    /\ hPc' = "config"
    /\ UNCHANGED << hInput, hDetector, hResult, hEdits, hGenerator, hTree,
                    treeVars, pushVars, aiVars, storeVars, navVars, stepVars >>

\* xs with x added when absent, removed when present: the checkbox handlers
toggled(xs, x) == IF x \in xs THEN xs \ { x } ELSE xs \cup { x }

\* StepConfig: one handleChange(field, value) on a field the generators read
editConfig ==
    /\ hPc = "config"
    /\ hEdits < MaxEdits
    /\ \/ hConfig' = [ hConfig EXCEPT !.useTypeScript = ~@ ]
       \/ hConfig' = [ hConfig EXCEPT !.includeTests = ~@ ]
       \/ hConfig' = [ hConfig EXCEPT !.includeDocker = ~@ ]
       \/ hConfig' = [ hConfig EXCEPT !.githubCodeowners = ~@ ]
       \/ \E ci \in { "github", "gitlab", "none" } :
             ci # hConfig.ciProvider /\ hConfig' = [ hConfig EXCEPT !.ciProvider = ci ]
       \/ \E wf \in { "ci", "release" } :
             hConfig' = [ hConfig EXCEPT !.githubWorkflows = toggled(@, wf) ]
       \/ \E t \in { "bug_report", "pull_request" } :
             hConfig' = [ hConfig EXCEPT !.githubTemplates = toggled(@, t) ]
       \/ \E cm \in { "contributing" } :
             hConfig' = [ hConfig EXCEPT !.githubCommunity = toggled(@, cm) ]
    /\ hEdits' = hEdits + 1
    /\ UNCHANGED << hPc, hInput, hDetector, hResult, hGenerator, hTree,
                    treeVars, pushVars, aiVars, storeVars, navVars, stepVars >>

\* mockGenerate(config, rawInput) of aiService.ts
mockGenerateRuns ==
    /\ hPc = "config"
    /\ hTree' = mockGenerate(hConfig, hInput)
    /\ hGenerator' = "aiService"
    /\ hPc' = "generated"
    /\ UNCHANGED << hInput, hDetector, hResult, hConfig, hEdits,
                    treeVars, pushVars, aiVars, storeVars, navVars, stepVars >>

\* generateFileTree(config, rawInput) of mockAiWorker.ts
mockAiWorkerGenerateRuns ==
    /\ hPc = "config"
    /\ hTree' = mockAiWorker_generateFileTree(hConfig, hInput)
    /\ hGenerator' = "mockAiWorker"
    /\ hPc' = "generated"
    /\ UNCHANGED << hInput, hDetector, hResult, hConfig, hEdits,
                    treeVars, pushVars, aiVars, storeVars, navVars, stepVars >>

HeurNext ==
    \/ mockDetectRuns
    \/ mockAiWorkerDetectRuns
    \/ handleDetectionNext
    \/ editConfig
    \/ mockGenerateRuns
    \/ mockAiWorkerGenerateRuns

SpecHeuristic == HeurInit /\ [][HeurNext]_vars


----------------------------------------------------------------------------
(* Claims about the heuristic detector.                                    *)

\* a detector has returned
Detected == hPc # "input"

\* lower.includes of one of the backend keywords
hasBackendKeyword(input) ==
    \/ includes(lowerInput(input), "django")
    \/ includes(lowerInput(input), "flask")
    \/ includes(lowerInput(input), "def ")

\* lower.includes of one of the frontend keywords
hasFrontendKeyword(input) ==
    includes(lowerInput(input), "react") \/ includes(lowerInput(input), "jsx")

\* lower.includes of one of the TypeScript marks
hasTypeScriptMark(input) ==
    \/ includes(lowerInput(input), "interface ")
    \/ includes(lowerInput(input), "type ")
    \/ includes(lowerInput(input), ": string")

\* result.framework, result.suggestedProjectType and result.confidence
ruleOf(result) ==
    << getProp(result, << "framework" >>),
       getProp(result, << "suggestedProjectType" >>),
       getProp(result, << "confidence" >>) >>

\* C12: an input with a backend keyword is classified Flask / Backend (88)
\* whether or not it also holds "react" or "jsx"; without a backend keyword
\* "react" or "jsx" gives React / Frontend (92), and an input with neither
\* gets the Node.js / Backend (65) default.
C12_BackendRuleFirst ==
    Detected =>
        ruleOf(hResult) =
            IF hasBackendKeyword(hInput)
            THEN << jsString(<< "Flask" >>), jsString(<< "Backend" >>), jsNumber(88) >>
            ELSE IF hasFrontendKeyword(hInput)
                 THEN << jsString(<< "React" >>), jsString(<< "Frontend" >>), jsNumber(92) >>
                 ELSE << jsString(<< "Node.js" >>), jsString(<< "Backend" >>), jsNumber(65) >>

\* C13: an input with "interface ", "type " or ": string" gets language
\* TypeScript, whichever primary rule fired for it.
C13_TypeScriptUpgrade ==
    Detected /\ hasTypeScriptMark(hInput)
        => getProp(hResult, << "language" >>) = jsString(<< "TypeScript" >>)


----------------------------------------------------------------------------
(* Claims about the template generator.                                    *)

\* a template generator has returned a tree
Generated == hPc = "generated" /\ ~hTree.threw

RECURSIVE hasNodeNamed(_, _)
\* some node of the tree, at any depth, has the name
hasNodeNamed(nodes, name) ==
    \E i \in 1..Len(nodes) :
        \/ nodes[i].name = name
        \/ nodes[i].type = FOLDER /\ hasNodeNamed(nodes[i].children, name)

\* the files among the nodes that have the name
filesNamed(nodes, name) ==
    { i \in 1..Len(nodes) : nodes[i].type = FILE /\ nodes[i].name = name }

\* the folders among the nodes that have the name
foldersNamed(nodes, name) ==
    { i \in 1..Len(nodes) : nodes[i].type = FOLDER /\ nodes[i].name = name }

RECURSIVE leafPaths(_, _)
\* the paths of the files of the tree, each the sequence of the names on it
leafPaths(nodes, prefix) ==
    UNION { IF nodes[i].type = FOLDER
            THEN leafPaths(nodes[i].children, Append(prefix, nodes[i].name))
            ELSE { Append(prefix, nodes[i].name) } : i \in 1..Len(nodes) }

\* ciProvider is not 'github', the three selections are empty, CODEOWNERS off
NoGithubSelections(c) ==
    /\ c.ciProvider # "github"
    /\ c.githubWorkflows = {}
    /\ c.githubTemplates = {}
    /\ c.githubCommunity = {}
    /\ ~c.githubCodeowners

\* C14: with ciProvider other than 'github', no workflow, template or
\* community file selected and CODEOWNERS off, the tree of the template
\* generator has no node named .github, at any depth.
C14_NoGithubFolder ==
    Generated /\ NoGithubSelections(hConfig)
        => ~hasNodeNamed(hTree.value, << ".github" >>)

\* a generator has returned for a config the user changed to gitlab CI and
\* that selects nothing for GitHub
C14_Witness ==
    /\ Generated
    /\ hGenerator = "aiService"
    /\ hConfig.ciProvider = "gitlab"
    /\ NoGithubSelections(hConfig)
    /\ foldersNamed(hTree.value, << "src" >>) # {}

\* the extension the 2x2 table gives: TypeScript on or off, React or not
tableExt(c) ==
    IF c.useTypeScript
    THEN (IF c.framework = jsString(<< "React" >>) THEN "tsx" ELSE "ts")
    ELSE (IF c.framework = jsString(<< "React" >>) THEN "jsx" ELSE "js")

\* the names of the files index.<ext> among the children of the folder
indexFiles(folder) ==
    { folder.children[i].name : i \in
        { j \in 1..Len(folder.children) :
            /\ folder.children[j].type = FILE
            /\ Len(folder.children[j].name) = 3
            /\ folder.children[j].name[1] = "index" } }

\* C15: the tree has the root files package.json and README.md and a root
\* folder src with one entry file index.<ext>, ext given by the table of
\* useTypeScript and framework = React; with useTypeScript on, React, no
\* Docker and no GitHub selection the files of the tree are exactly
\* package.json, README.md and src/index.tsx.
C15_EntryFileTable ==
    hPc = "generated" =>
        /\ ~hTree.threw
        /\ filesNamed(hTree.value, << "package", ".", "json" >>) # {}
        /\ filesNamed(hTree.value, << "README", ".", "md" >>) # {}
        /\ Cardinality(foldersNamed(hTree.value, << "src" >>)) = 1
        /\ \A i \in foldersNamed(hTree.value, << "src" >>) :
              indexFiles(hTree.value[i]) = { << "index", ".", tableExt(hConfig) >> }
        /\ ( /\ hConfig.useTypeScript
             /\ hConfig.framework = jsString(<< "React" >>)
             /\ ~hConfig.includeDocker
             /\ NoGithubSelections(hConfig)
             => leafPaths(hTree.value, << >>) =
                    { << << "package", ".", "json" >> >>,
                      << << "README", ".", "md" >> >>,
                      << << "src" >>, << "index", ".", "tsx" >> >> } )

\* C16: the tree has a root file named Dockerfile exactly when
\* config.includeDocker is true.
C16_DockerfileIffRequested ==
    Generated =>
        (filesNamed(hTree.value, << "Dockerfile" >>) # {} <=> hConfig.includeDocker)

\* the entry files: the children with id 'entry' of the root folders src
entryFiles(nodes) ==
    UNION { { nodes[i].children[j] :
                j \in { k \in 1..Len(nodes[i].children) :
                           nodes[i].children[k].id = << "entry" >> } } :
            i \in foldersNamed(nodes, << "src" >>) }

\* C17: the content of the entry file under src holds the whole raw input
\* as one contiguous run, whatever the length of the input.
C17_EntryHoldsWholeInput ==
    Generated =>
        /\ entryFiles(hTree.value) # {}
        /\ \A f \in entryFiles(hTree.value) : containsSeq(f.content.str, hInput)

RECURSIVE noEmptyFolder(_)
\* every folder among the nodes, at any depth, has at least one child
noEmptyFolder(nodes) ==
    \A i \in 1..Len(nodes) :
        nodes[i].type = FOLDER =>
            /\ Len(nodes[i].children) > 0
            /\ noEmptyFolder(nodes[i].children)

\* C29: a .github folder in the tree of a template generator has at least
\* one child, and so has every folder inside it.
C29_GithubFolderNotEmpty ==
    Generated =>
        \A i \in foldersNamed(hTree.value, << ".github" >>) :
            noEmptyFolder(<< hTree.value[i] >>)


----------------------------------------------------------------------------
(* The key store: setApiKey / getApiKey (services/aiService.ts 8-48) as    *)
(* ApiKeyInput (5-Generate.tsx 594-624) drives them, across page loads.    *)

RECURSIVE textOf(_)
\* the string the pieces make up
textOf(pieces) ==
    IF pieces = << >> THEN "" ELSE Head(pieces) \o textOf(Tail(pieces))

\* what the user may type into the key field
KeyTexts ==
    { << >>, << " " >>, << "user-key" >>, << " ", "other-key", " " >> }

\* localStorage.getItem('gemini_api_key') || ''
loadedKey == IF storedKey = << >> THEN "" ELSE storedKey[1]

\* the module is loaded: the item a previous visit left, if any, is read
KeyInit ==
    /\ keyPc = "loaded"
    /\ storedKey \in { << >>, << "" >>, << "user-key" >> }
    /\ runtimeApiKey = loadedKey
    /\ envApiKey \in { "", "env-key" }
    /\ viteApiKey \in { "", "vite-key" }
    /\ akIsOpen = FALSE /\ akKey = << >> /\ akHasKey = FALSE /\ hasApiKey = FALSE
    /\ build = "off"
    /\ step = 0 /\ rawInput = << >> /\ config = << >> /\ generatedFiles = << >>
    /\ detectionLoading = FALSE /\ detectionResult = << >>
    /\ previewLoading = FALSE /\ previewFiles = << >>
    /\ selectedFile = << >> /\ isRefactoring = FALSE
    /\ detectPc = "off" /\ detectAnswer = << >>
    /\ genPc = "off" /\ genAnswer = << >> /\ genConfig = << >> /\ genValue = << >>
    /\ refPc = "off" /\ refInstruction = << >> /\ refactors = 0
    /\ refOutcome = << >>
    /\ endpointCalls = << >>
    /\ files = << >> /\ fileNodes = << >> /\ convPc = "off"
    /\ PushOff
    /\ HeurOff
    /\ NavOff
    /\ StepsOff

\* everything the key store leaves alone
keyFrame ==
    << build, appVars, detectionVars, previewVars, genVars, refVars, endpointCalls,
       envApiKey, viteApiKey, treeVars, pushVars, heurVars, navVars, stepVars >>

\* setApiKey(key)
setApiKey(key) ==
    /\ runtimeApiKey' = key
    /\ storedKey' = << key >>

\* ApiKeyInput mounts: its effect reads getApiKey()
ApiKeyInputMounts ==
    /\ keyPc = "loaded"
    /\ keyPc' = "mounted"
    /\ IF getApiKey # ""
       THEN /\ akHasKey' = TRUE
            /\ akKey' = << getApiKey >>
            /\ hasApiKey' = TRUE
       ELSE /\ hasApiKey' = FALSE
            /\ UNCHANGED << akHasKey, akKey >>
    /\ UNCHANGED << runtimeApiKey, storedKey, akIsOpen, keyFrame >>

\* onClick={() => setIsOpen(!isOpen)}
ToggleOpen ==
    /\ keyPc = "mounted"
    /\ akIsOpen' = ~akIsOpen
    /\ UNCHANGED << keyPc, runtimeApiKey, storedKey, akKey, akHasKey, hasApiKey,
                    keyFrame >>

\* onChange={(e) => setKey(e.target.value)}
TypeKey ==
    /\ keyPc = "mounted" /\ akIsOpen
    /\ \E text \in KeyTexts : text # akKey /\ akKey' = text
    /\ UNCHANGED << keyPc, runtimeApiKey, storedKey, akIsOpen, akHasKey, hasApiKey,
                    keyFrame >>

\* handleSave, its button disabled while key.trim() is empty
handleSave ==
    /\ keyPc = "mounted" /\ akIsOpen
    /\ trim(akKey) # << >>
    /\ setApiKey(textOf(trim(akKey)))
    /\ akHasKey' = TRUE
    /\ akIsOpen' = FALSE
    /\ hasApiKey' = TRUE
    /\ UNCHANGED << keyPc, akKey, keyFrame >>

\* handleClear, its button rendered while hasKey
handleClear ==
    /\ keyPc = "mounted" /\ akIsOpen /\ akHasKey
    /\ setApiKey("")
    /\ akKey' = << >>
    /\ akHasKey' = FALSE
    /\ hasApiKey' = FALSE
    /\ UNCHANGED << keyPc, akIsOpen, keyFrame >>

\* the page is loaded again: the module and the components start afresh
Reload ==
    /\ keyPc = "mounted"
    /\ keyPc' = "loaded"
    /\ runtimeApiKey' = loadedKey
    /\ akIsOpen' = FALSE /\ akKey' = << >> /\ akHasKey' = FALSE /\ hasApiKey' = FALSE
    /\ UNCHANGED << storedKey, keyFrame >>

KeyNext ==
    \/ ApiKeyInputMounts
    \/ ToggleOpen
    \/ TypeKey
    \/ handleSave
    \/ handleClear
    \/ Reload

SpecKey == KeyInit /\ [][KeyNext]_vars

\* C18: whatever setApiKey calls were made, getApiKey returns the persisted
\* user key when that key is not empty, whatever the environment supplies;
\* with no user key persisted it returns a key the environment supplies,
\* and the empty string exactly when there is neither.
C18_PersistedKeyWins ==
    keyPc # "off" =>
        /\ loadedKey # "" => getApiKey = loadedKey
        /\ loadedKey = "" /\ (envApiKey # "" \/ viteApiKey # "")
              => getApiKey \in { envApiKey, viteApiKey } \ { "" }
        /\ getApiKey = "" <=> (loadedKey = "" /\ envApiKey = "" /\ viteApiKey = "")

\* a key saved through handleSave is persisted while the environment
\* supplies another, and getApiKey returns the saved one
C18_Witness ==
    /\ keyPc = "mounted"
    /\ loadedKey = "other-key"
    /\ envApiKey = "env-key"
    /\ getApiKey = "other-key"

\* C30: once ApiKeyInput has mounted, after any saves and clears, the flag
\* hasApiKey of App is true exactly when getApiKey() returns a non-empty
\* key, that is exactly when the adapter will call the endpoint.
C30_FlagMatchesKey ==
    keyPc = "mounted" => (hasApiKey <=> getApiKey # "")


----------------------------------------------------------------------------
(* The wizard with goBack and handleReset (unnamed/part_000 19-46): every  *)
(* step component is mounted while its step is shown, the effects of       *)
(* StepDetection (2-Detection.tsx 16-25) and StepPreview (4-Preview.tsx    *)
(* 124-149) each make one adapter call per mount, and a call settles       *)
(* whenever the adapter is done, mounted or not.                           *)

\* most goBack and handleReset calls in one behaviour
MaxNavs == 1

\* the snippets the user may paste
NavInputs == { << "const x = 1" >>, << "import ", "React" >> }

\* a call an effect has just made:  let isMounted = true
newCall(op, input, c) ==
    [ op |-> op, input |-> input, config |-> c, isMounted |-> TRUE,
      status |-> "pending", value |-> << >>, applied |-> FALSE ]

\* the cleanup of an effect:  return () => { isMounted = false; }  (forgotten)
cleanupForgets(call) == call

\* the cleanup of an effect:  return () => { isMounted = false; }
cleanup(call) == [ call EXCEPT !.isMounted = FALSE ]

\* the calls still in flight after the mounted step component has unmounted:
\* a settled call has run its callback and is dropped
cleanedUp(cs) ==
    LET inFlight == SelectSeq(cs, LAMBDA call : call.status = "pending")
    IN  [ i \in 1..Len(inFlight) |-> cleanup(inFlight[i]) ]

\* how the endpoint may end a detection call: no call without a key
detectAnswers ==
    IF getApiKey = "" THEN { Answer("nokey", << >>) }
    ELSE { Answer("text", << DetectionJson >>), Answer("text", << NullJson >>),
           Answer("throw", << >>) }

\* how the endpoint may end a generation call: no call without a key
generateAnswers ==
    IF getApiKey = "" THEN { Answer("nokey", << >>) }
    ELSE { Answer("text", << PathMapJson >>), Answer("text", << EmptyObjectJson >>),
           Answer("throw", << >>) }

\* disabled={loading || files.length === 0}  (forgotten)
previewNextAlways == TRUE

\* disabled={loading || files.length === 0}
previewNextEnabled == ~previewLoading /\ previewFiles # << >>

\* setStep(s) rendered: the component of the step shown unmounts and its
\* effects are cleaned up, the component of step s mounts with fresh state
\* and runs its effect on the props rawInput = input, config = c,
\* existingFiles = existing
render(s, input, c, existing) ==
    /\ step' = s
    /\ detectionLoading' = (s = 1) /\ detectionResult' = jsNull
    /\ previewLoading' = (s = 3) /\ previewFiles' = << >> /\ selectedFile' = << >>
    /\ complete' = (s = 4 /\ existing # << >>)
    /\ finalFiles' = IF s = 4 THEN existing ELSE << >>
    /\ effectCalls' =
           cleanedUp(effectCalls)
           \o (IF s = 1 THEN << newCall("detectStack", input, << >>) >>
               ELSE IF s = 3 THEN << newCall("generateFileTree", input, c) >>
               ELSE << >>)

\* everything the wizard with navigation leaves alone
navFrame ==
    << keyVars, isRefactoring, detectPc, detectAnswer, genVars, refVars,
       endpointCalls, treeVars, githubToken, showTokenInput, isPushing, pushResult,
       logs, runVars, hostVars, heurVars, storeVars, stepVars >>

NavInit ==
    /\ runtimeApiKey \in { "", "user-key" }
    /\ envApiKey = ""
    /\ build = "aiService"
    /\ step = 0 /\ rawInput = << >> /\ config = INITIAL_CONFIG
    /\ generatedFiles = << >>
    /\ detectionLoading = FALSE /\ detectionResult = jsNull
    /\ previewLoading = FALSE /\ previewFiles = << >>
    /\ selectedFile = << >> /\ isRefactoring = FALSE
    /\ detectPc = "off" /\ detectAnswer = << >>
    /\ genPc = "off" /\ genAnswer = << >> /\ genConfig = << >> /\ genValue = << >>
    /\ refPc = "off" /\ refInstruction = << >> /\ refactors = 0
    /\ refOutcome = << >>
    /\ endpointCalls = << >>
    /\ effectCalls = << >> /\ complete = FALSE /\ navs = 0 /\ edited = FALSE
    /\ files = << >> /\ fileNodes = << >> /\ convPc = "off"
    /\ PushOff
    /\ HeurOff
    /\ StoreOff
    /\ StepsOff

\* handleUploadNext(input): StepDetection mounts
UploadNext ==
    /\ step = 0
    /\ \E input \in NavInputs :
          /\ rawInput' = input
          /\ render(1, input, config, generatedFiles)
    /\ UNCHANGED << config, generatedFiles, navs, edited, navFrame >>

\* detectStack(rawInput).then(res => { if (isMounted) { ... } })
DetectionEffectSettles ==
    /\ \E i \in 1..Len(effectCalls) : \E answer \in detectAnswers :
          /\ effectCalls[i].op = "detectStack"
          /\ effectCalls[i].status = "pending"
          /\ LET res == detectStack(effectCalls[i].input, answer)
             IN  /\ effectCalls' =
                        [ effectCalls EXCEPT ![i].status = "resolved",
                                             ![i].value =
                                                 IF effectCalls[i].isMounted
                                                 THEN res ELSE << >>,
                                             ![i].applied = effectCalls[i].isMounted ]
                 /\ IF effectCalls[i].isMounted
                    THEN detectionResult' = res /\ detectionLoading' = FALSE
                    ELSE UNCHANGED << detectionResult, detectionLoading >>
    /\ UNCHANGED << step, rawInput, config, generatedFiles, previewLoading,
                    previewFiles, selectedFile, finalFiles, complete, navs, edited, navFrame >>

\* onClick={() => result && onNext(result)}: handleDetectionNext(result),
\* StepConfig mounts
DetectionNext ==
    /\ step = 1 /\ ~detectionLoading
    /\ truthy(detectionResult)
    /\ config' = [ config EXCEPT
                     !.language      = getProp(detectionResult, << "language" >>),
                     !.framework     = getProp(detectionResult, << "framework" >>),
                     !.projectType   = getProp(detectionResult, << "suggestedProjectType" >>),
                     !.useTypeScript = getProp(detectionResult, << "language" >>)
                                          = jsString(<< "TypeScript" >>) ]
    /\ render(2, rawInput, config', generatedFiles)
    /\ UNCHANGED << rawInput, generatedFiles, navs, edited, navFrame >>

\* StepConfig: handleChange('ciProvider', ci),
\* handleChange('useTypeScript', !config.useTypeScript)
ConfigChange ==
    /\ step = 2
    /\ \/ \E ci \in { "github", "none" } :
             ci # config.ciProvider /\ config' = [ config EXCEPT !.ciProvider = ci ]
       \/ config' = [ config EXCEPT !.useTypeScript = ~@ ]
    /\ edited' = TRUE
    /\ UNCHANGED << step, rawInput, generatedFiles, detectionLoading, detectionResult,
                    previewLoading, previewFiles, selectedFile, finalFiles,
                    effectCalls, complete, navs, navFrame >>

\* handleConfigNext: StepPreview mounts
ConfigNext ==
    /\ step = 2
    /\ render(3, rawInput, config, generatedFiles)
    /\ UNCHANGED << rawInput, config, generatedFiles, navs, edited, navFrame >>

\* const tree = await generateFileTree(config, rawInput);
\* if (isMounted) { ... }: a rejection leaves everything as it is
PreviewEffectSettles ==
    /\ \E i \in 1..Len(effectCalls) : \E answer \in generateAnswers :
          /\ effectCalls[i].op = "generateFileTree"
          /\ effectCalls[i].status = "pending"
          /\ LET out == generateFileTree(build, effectCalls[i].config,
                                         effectCalls[i].input, answer)
             IN  IF out.threw
                 THEN /\ effectCalls' = [ effectCalls EXCEPT ![i].status = "rejected" ]
                      /\ UNCHANGED << previewFiles, generatedFiles, selectedFile,
                                      previewLoading >>
                 ELSE /\ effectCalls' =
                             [ effectCalls EXCEPT ![i].status = "resolved",
                                                  ![i].value =
                                                      IF effectCalls[i].isMounted
                                                      THEN out.value ELSE << >>,
                                                  ![i].applied = effectCalls[i].isMounted ]
                      /\ IF effectCalls[i].isMounted
                         THEN /\ previewFiles' = out.value
                              /\ generatedFiles' = out.value
                              /\ selectedFile' = findFirstFile(out.value)
                              /\ previewLoading' = FALSE
                         ELSE UNCHANGED << previewFiles, generatedFiles, selectedFile,
                                           previewLoading >>
    /\ UNCHANGED << step, rawInput, config, detectionLoading, detectionResult,
                    finalFiles, complete, navs, edited, navFrame >>

\* handlePreviewNext: StepGenerate mounts and its effect takes existingFiles
PreviewNext ==
    /\ step = 3
    /\ previewNextEnabled
    /\ render(4, rawInput, config, generatedFiles)
    /\ UNCHANGED << rawInput, config, generatedFiles, navs, edited, navFrame >>

\* goBack, from the buttons of StepDetection (rendered once loaded),
\* StepConfig and StepPreview
goBack ==
    /\ navs < MaxNavs
    /\ step \in { 2, 3 } \/ (step = 1 /\ ~detectionLoading)
    /\ render(step - 1, rawInput, config, generatedFiles)
    /\ navs' = navs + 1
    /\ UNCHANGED << rawInput, config, generatedFiles, edited, navFrame >>

\* handleReset, from the header and from StepGenerate
handleReset ==
    /\ navs < MaxNavs
    /\ rawInput' = << >>
    /\ config' = INITIAL_CONFIG
    /\ generatedFiles' = << >>
    /\ render(0, << >>, INITIAL_CONFIG, << >>)
    /\ navs' = navs + 1
    /\ edited' = FALSE
    /\ UNCHANGED navFrame

NavNext ==
    \/ UploadNext
    \/ DetectionEffectSettles
    \/ DetectionNext
    \/ ConfigChange
    \/ ConfigNext
    \/ PreviewEffectSettles
    \/ PreviewNext
    \/ goBack
    \/ handleReset

SpecNav == NavInit /\ [][NavNext]_vars


\* the call of the effect of the step component that is mounted now
Live(i) ==
    /\ i = Len(effectCalls)
    /\ \/ effectCalls[i].op = "detectStack" /\ step = 1
       \/ effectCalls[i].op = "generateFileTree" /\ step = 3

C20_StaleResultIgnored ==
    [][ \A i \in 1..Len(effectCalls) :
            ( /\ effectCalls[i].status = "pending"
              /\ ~Live(i)
              /\ Len(effectCalls') = Len(effectCalls)
              /\ effectCalls'[i].status # "pending" )
            => UNCHANGED << detectionResult, detectionLoading, previewFiles,
                            selectedFile, previewLoading, generatedFiles, config,
                            rawInput, step >>
      ]_vars

\* the four fields of the config that handleDetectionNext writes
mergedFields(c) == << c.language, c.framework, c.projectType, c.useTypeScript >>

\* C22: once the user has edited the configuration, no transition of the
\* wizard run other than a further edit changes language, framework,
\* projectType or useTypeScript: detection values are not merged again.
C22_MergedOnce ==
    [][ (edited /\ edited' /\ ~(step = 2 /\ step' = 2))
            => mergedFields(config') = mergedFields(config) ]_vars

\* a detectStack call left behind by a reset has resolved while the
\* Detection step mounted since is still waiting for its own call
C20_Witness ==
    /\ step = 1 /\ detectionLoading
    /\ navs > 0
    /\ \E i \in 1..Len(effectCalls) :
          /\ effectCalls[i].op = "detectStack"
          /\ effectCalls[i].status = "resolved"
          /\ ~effectCalls[i].applied

----------------------------------------------------------------------------
(* The Upload step (components/Steps/1-Upload.tsx 159-262) with            *)
(* fetchRepoContents (services/githubService.ts 68-127), under App's       *)
(* handleUploadNext and the reset button of the header (unnamed/part_000   *)
(* 19-22, 38-43, 52-54).                                                   *)

\* most handleNext calls in one behaviour
MaxNexts == 2

\* prose of more than 100 characters, letters and spaces only
LongProse ==
    "the quick brown fox jumps over the lazy dog and then the lazy dog jumps over the quick brown fox once more"

\* [\w-]+
Words == { "owner", "repo" }

\* what the user may paste, or type into the URL field
UploadTexts ==
    { << "https://", "github.com", "/", "owner", "/", "repo" >>,
      << "https://", "github.com", "/", "owner" >>,
      << "github.com", "/", "owner", "/", "repo" >>,
      << "https://", "gitlab.com", "/", "owner" >>,
      << "const x = 1;" >>,
      << "hello" >>,
      << "hello world again" >>,
      << LongProse >> }

\* content.trim().length
trimmedLength(content) ==
    LET t == trim(content) IN charsIn(t, 1, Len(t))

\* codeIndicators.some(pattern => pattern.test(content)): of the eighteen
\* patterns, the texts above can match /const\s+\w+\s*=/i and, with a
\* character after the two slashes, /\/\/.+/
hasCodeIndicators(content) ==
    \/ \E i \in 1..Len(content) : content[i] = "const x = 1;"
    \/ \E i \in 1..(Len(content) - 1) : content[i] = "https://"

\* nonCodePatterns.some(pattern => pattern.test(content) && content.length > 100):
\* /^[^{}\[\]();]+$/ matches every text above without a semicolon, and
\* the other two patterns match only texts the first one matches
isLikelyNotCode(content) ==
    /\ content # << >>
    /\ \A i \in 1..Len(content) : content[i] # "const x = 1;"
    /\ charsIn(content, 1, Len(content)) > 100

\* validateCode(content): what it returns and the error it sets, "null"
\* when it sets none
validateCode(content) ==
    IF trimmedLength(content) < 10
    THEN [ ok |-> FALSE, error |-> "Content is too short. Please paste actual code." ]
    ELSE IF isLikelyNotCode(content) /\ ~hasCodeIndicators(content)
    THEN [ ok |-> FALSE, error |-> "This doesn't appear to be code. ..." ]
    ELSE IF ~hasCodeIndicators(content)
    THEN [ ok |-> FALSE, error |-> "Unable to detect code patterns. ..." ]
    ELSE [ ok |-> TRUE, error |-> "null" ]

\* textInput.match(/https:\/\/github\.com\/[\w-]+\/[\w-]+/): the places a
\* match starts at
urlMatches(text) ==
    { i \in 1..(Len(text) - 5) :
        /\ text[i] = "https://" /\ text[i+1] = "github.com" /\ text[i+2] = "/"
        /\ text[i+3] \in Words /\ text[i+4] = "/" /\ text[i+5] \in Words }

\* const url = urlMatch ? urlMatch[0] : textInput
urlOf(text) ==
    IF urlMatches(text) = {} THEN text
    ELSE LET i == CHOOSE i \in urlMatches(text) : \A j \in urlMatches(text) : i <= j
         IN  SubSeq(text, i, i + 5)

\* parseGithubUrl(url): << >> for null, else << [owner, repo] >>; new URL(url)
\* throws unless the text has a scheme and a host, and the host is not looked at
parseGithubUrl(url) ==
    IF Len(url) >= 2 /\ url[1] = "https://"
    THEN LET parts == SelectSeq(Split(SubSeq(url, 3, Len(url)), "/"),
                                LAMBDA seg : seg # << >>)
         IN  IF Len(parts) >= 2
             THEN << [ owner |-> parts[1], repo |-> parts[2] ] >>
             ELSE << >>
    ELSE << >>

\* combinedContent of fetchRepoContents for a repository whose listing is empty
combinedContent(info) ==
    << "// Analysis of GitHub Repo: " >> \o info.owner \o << "/" >> \o info.repo
       \o << NL, NL, "// Root Directory Structure:", NL >>

\* how a fetchRepoContents call past parseGithubUrl may end: the listing
\* arrives, the response is not ok, or a fetch rejects
FetchOutcomes == { "ok", "notOk", "throw" }

\* a fetchRepoContents call is in flight
fetchPending == repoFetch # << >> /\ repoFetch[1].status = "pending"

\* everything the Upload step leaves alone
uploadFrame ==
    << keyVars, detectionVars, previewVars, genVars, refVars, endpointCalls,
       treeVars, pushVars, heurVars, storeVars, effectCalls, complete, edited,
       controlVars, tickerVars >>

\* StepUpload as it mounts
mountStepUpload ==
    /\ textInput' = << >> /\ importMode' = "file" /\ isLoading' = FALSE
    /\ uploadError' = "null"

UploadInit ==
    /\ step = 0 /\ rawInput = << >> /\ config = INITIAL_CONFIG
    /\ generatedFiles = << >>
    /\ textInput = << >> /\ importMode = "file" /\ isLoading = FALSE
    /\ uploadError = "null" /\ repoFetch = << >> /\ nextCalls = 0
    /\ runtimeApiKey = "" /\ envApiKey = "" /\ build = "off"
    /\ detectionLoading = FALSE /\ detectionResult = << >>
    /\ previewLoading = FALSE /\ previewFiles = << >>
    /\ selectedFile = << >> /\ isRefactoring = FALSE
    /\ detectPc = "off" /\ detectAnswer = << >>
    /\ genPc = "off" /\ genAnswer = << >> /\ genConfig = << >> /\ genValue = << >>
    /\ refPc = "off" /\ refInstruction = << >> /\ refactors = 0
    /\ refOutcome = << >>
    /\ endpointCalls = << >>
    /\ files = << >> /\ fileNodes = << >> /\ convPc = "off"
    /\ PushOff
    /\ HeurOff
    /\ StoreOff
    /\ NavOff
    /\ ControlsOff
    /\ TickerOff

\* onClick={() => { setImportMode(mode); setError(null); }}
setImportMode ==
    /\ step = 0
    /\ \E mode \in { "file", "github" } : mode # importMode /\ importMode' = mode
    /\ uploadError' = "null"
    /\ UNCHANGED << appVars, navs, textInput, isLoading, repoFetch, nextCalls,
                    uploadFrame >>

\* setTextInput(value): the paste area, its Clear button, the URL field
setTextInput ==
    /\ step = 0
    /\ \E text \in UploadTexts \cup { << >> } : text # textInput /\ textInput' = text
    /\ UNCHANGED << appVars, navs, importMode, isLoading, uploadError, repoFetch,
                    nextCalls, uploadFrame >>

\* handleNext, its button disabled={!textInput.trim() || isLoading}: in GitHub
\* mode fetchRepoContents is called, and rejects at once when parseGithubUrl
\* returns null; otherwise validateCode decides whether onNext is called
handleNext ==
    /\ step = 0
    /\ trim(textInput) # << >> /\ ~isLoading
    /\ nextCalls < MaxNexts
    /\ nextCalls' = nextCalls + 1
    /\ IF importMode = "github" /\ includes(textInput, "github.com")
       THEN IF parseGithubUrl(urlOf(textInput)) = << >>
            THEN /\ uploadError' = "Failed to fetch GitHub repository. ..."
                 /\ isLoading' = FALSE
                 /\ repoFetch' = << [ url |-> urlOf(textInput), navs |-> navs,
                                      status |-> "rejected" ] >>
                 /\ UNCHANGED << step, rawInput >>
            ELSE /\ uploadError' = "null"
                 /\ isLoading' = TRUE
                 /\ repoFetch' = << [ url |-> urlOf(textInput), navs |-> navs,
                                      status |-> "pending" ] >>
                 /\ UNCHANGED << step, rawInput >>
       ELSE IF ~validateCode(textInput).ok
            THEN /\ uploadError' = validateCode(textInput).error
                 /\ UNCHANGED << step, rawInput, isLoading, repoFetch >>
            ELSE /\ uploadError' = "null"
                 /\ rawInput' = textInput
                 /\ step' = 1
                 /\ UNCHANGED << isLoading, repoFetch >>
    /\ UNCHANGED << config, generatedFiles, navs, textInput, importMode, uploadFrame >>

\* the fetchRepoContents call settles: onNext(content), or the catch block;
\* finally setIsLoading(false)
fetchRepoContentsSettles ==
    /\ fetchPending
    /\ \E outcome \in FetchOutcomes :
          IF outcome = "ok"
          THEN /\ rawInput' = combinedContent(parseGithubUrl(repoFetch[1].url)[1])
               /\ step' = 1
               /\ repoFetch' = << [ repoFetch[1] EXCEPT !.status = "resolved" ] >>
               /\ UNCHANGED uploadError
          ELSE /\ uploadError' = "Failed to fetch GitHub repository. ..."
               /\ repoFetch' = << [ repoFetch[1] EXCEPT !.status = "rejected" ] >>
               /\ UNCHANGED << step, rawInput >>
    /\ isLoading' = FALSE
    /\ UNCHANGED << config, generatedFiles, navs, textInput, importMode, nextCalls,
                    uploadFrame >>

\* handleReset from the header button: on the Upload step StepUpload stays
\* mounted and keeps its state, from a later step it mounts afresh
resetFromHeader ==
    /\ navs < MaxNavs
    /\ step' = 0 /\ rawInput' = << >> /\ config' = INITIAL_CONFIG
    /\ generatedFiles' = << >>
    /\ navs' = navs + 1
    /\ IF step = 0
       THEN UNCHANGED << textInput, importMode, isLoading, uploadError >>
       ELSE mountStepUpload
    /\ UNCHANGED << repoFetch, nextCalls, uploadFrame >>

UploadStepNext ==
    \/ setImportMode
    \/ setTextInput
    \/ handleNext
    \/ fetchRepoContentsSettles
    \/ resetFromHeader

SpecUpload == UploadInit /\ [][UploadStepNext]_vars

\* the text is a URL: it has a scheme or a host name
holdsUrl(text) ==
    \/ includes(text, "https://")
    \/ includes(text, "github.com")
    \/ includes(text, "gitlab.com")

\* handleNext is called on an input that is to be refused: validateCode runs
\* and returns false, or the step is in GitHub mode and the URL of the field
\* does not parse
Refused ==
    \/ /\ ~(importMode = "github" /\ includes(textInput, "github.com"))
       /\ ~validateCode(textInput).ok
    \/ /\ importMode = "github"
       /\ holdsUrl(textInput)
       /\ parseGithubUrl(urlOf(textInput)) = << >>

\* C21: when handleNext is called on an input that fails validateCode, or in
\* GitHub mode on a URL that does not parse, and when the repository fetch
\* fails, an error is shown, the wizard stays on the Upload step and
\* rawInput is unchanged.
C21_InvalidInputStops ==
    [][ /\ (nextCalls' = nextCalls + 1 /\ Refused)
              => (uploadError' # "null" /\ step' = 0 /\ rawInput' = rawInput)
        /\ (fetchPending /\ repoFetch'[1].status = "rejected")
              => (uploadError' # "null" /\ step' = step /\ rawInput' = rawInput)
      ]_vars

\* C24: a repository fetch that settles after the wizard was reset neither
\* sets rawInput nor moves the wizard off the Upload step.
C24_LateFetchDropped ==
    [][ ( /\ fetchPending
          /\ navs > repoFetch[1].navs
          /\ repoFetch'[1].status # "pending" )
            => (rawInput' = rawInput /\ step' = step) ]_vars

----------------------------------------------------------------------------
(* The refactor controls of the Preview step (4-Preview.tsx 161-187 and    *)
(* 265-309) once generation has settled, and the hand-over of the tree to  *)
(* the Generate step (unnamed/part_000 37, 110-111; 5-Generate.tsx 28-40). *)
(* The nodes of files, of App's generatedFiles and of finalFiles are the   *)
(* same objects: an update in place shows in all three.                    *)

\* most handleRefactor calls in one behaviour
MaxRequests == 2

\* the instruction of the JS -> TS shortcut
ShortcutInstruction ==
    << "Convert this file to TypeScript. Use proper types and interfaces." >>

\* what the user may type into the instruction field
Prompts == { << >>, << "Add comments" >> }

\* the configs the previewed tree was generated for
PreviewConfigs ==
    { INITIAL_CONFIG,
      [ INITIAL_CONFIG EXCEPT !.language = jsString(<< "JavaScript" >>),
                              !.framework = jsString(<< "Node.js" >>),
                              !.projectType = jsString(<< "Backend" >>),
                              !.useTypeScript = FALSE ] }

RECURSIVE filePaths(_)
\* the index paths of the File nodes of a tree: what a click in renderTree
\* can select
filePaths(nodes) ==
    UNION { IF nodes[i].type = FILE THEN { << i >> }
            ELSE { << i >> \o sel : sel \in filePaths(nodes[i].children) }
            : i \in 1..Len(nodes) }

\* everything the refactor controls leave alone
controlFrame ==
    << envApiKey, build, rawInput, config, detectionVars, previewLoading, genVars,
       refPc, refInstruction, refOutcome, endpointCalls, treeVars,
       githubToken, showTokenInput, isPushing, pushResult, logs, runVars, hostVars,
       heurVars, storeVars, effectCalls, navs, edited, uploadVars, tickerVars >>

\* StepPreview after loadTree has settled with the template tree
ControlInit ==
    /\ runtimeApiKey \in { "", "user-key" }
    /\ envApiKey = "" /\ build = "aiService"
    /\ step = 3 /\ rawInput = << "const x = 1" >>
    /\ config \in PreviewConfigs
    /\ generatedFiles = mockGenerate(config, rawInput).value
    /\ previewFiles = generatedFiles
    /\ selectedFile = findFirstFile(generatedFiles)
    /\ previewLoading = FALSE /\ isRefactoring = FALSE
    /\ refInFlight = << >> /\ refactorPrompt = << >> /\ showRefactorInput = FALSE
    /\ refactors = 0
    /\ detectionLoading = FALSE /\ detectionResult = << >>
    /\ detectPc = "off" /\ detectAnswer = << >>
    /\ genPc = "off" /\ genAnswer = << >> /\ genConfig = << >> /\ genValue = << >>
    /\ refPc = "off" /\ refInstruction = << >> /\ refOutcome = << >>
    /\ endpointCalls = << >>
    /\ files = << >> /\ fileNodes = << >> /\ convPc = "off"
    /\ PushOff
    /\ HeurOff
    /\ StoreOff
    /\ NavOff
    /\ UploadOff
    /\ TickerOff

\* renderTree: a click on a file,  setSelectedFile(node); setShowRefactorInput(false)
selectFile ==
    /\ step = 3
    /\ \E sel \in filePaths(previewFiles) : sel # selectedFile /\ selectedFile' = sel
    /\ showRefactorInput' = FALSE
    /\ UNCHANGED << runtimeApiKey, step, generatedFiles, previewFiles, isRefactoring,
                    finalFiles, complete, refactors, refInFlight, refactorPrompt,
                    controlFrame >>

\* the AI Refactor button:  setShowRefactorInput(!showRefactorInput)
toggleRefactorInput ==
    /\ step = 3 /\ selectedFile # << >>
    /\ showRefactorInput' = ~showRefactorInput
    /\ UNCHANGED << runtimeApiKey, step, generatedFiles, previewFiles, selectedFile,
                    isRefactoring, finalFiles, complete, refactors, refInFlight,
                    refactorPrompt, controlFrame >>

\* onChange={(e) => setRefactorPrompt(e.target.value)}
setRefactorPrompt ==
    /\ step = 3 /\ selectedFile # << >> /\ showRefactorInput
    /\ \E text \in Prompts : text # refactorPrompt /\ refactorPrompt' = text
    /\ UNCHANGED << runtimeApiKey, step, generatedFiles, previewFiles, selectedFile,
                    isRefactoring, finalFiles, complete, refactors, refInFlight,
                    showRefactorInput, controlFrame >>

\* handleRefactor 168-185 for the node the call was made on, refactorCode
\* having resolved with newContent: the node is updated in place, the state
\* setters act only while StepPreview is mounted
updateInPlace(sel, newContent, instruction) ==
    LET updated == setNodeAt(generatedFiles, sel,
                             refactoredNode(nodeAt(generatedFiles, sel),
                                            newContent, instruction))
    IN  /\ generatedFiles' = updated
        /\ IF step = 3
           THEN /\ previewFiles' = updated
                /\ showRefactorInput' = FALSE
                /\ refactorPrompt' = << >>
                /\ isRefactoring' = FALSE
                /\ UNCHANGED finalFiles
           ELSE /\ finalFiles' = updated
                /\ UNCHANGED << previewFiles, showRefactorInput, refactorPrompt,
                                isRefactoring >>

\* handleRefactor(instruction): returns at once without a selected file with
\* content; refactorCode resolves with the passthrough when there is no key,
\* and calls the endpoint when there is one
callHandleRefactor(instruction) ==
    /\ refactors < MaxRequests
    /\ refactors' = refactors + 1
    /\ IF selectedFile = << >> \/ ~truthy(nodeAt(generatedFiles, selectedFile).content)
       THEN UNCHANGED << generatedFiles, previewFiles, isRefactoring, finalFiles,
                         refInFlight, refactorPrompt, showRefactorInput >>
       ELSE IF getApiKey = ""
       THEN /\ updateInPlace(selectedFile,
                             passthrough(nodeAt(generatedFiles, selectedFile).content,
                                         instruction),
                             instruction)
            /\ UNCHANGED refInFlight
       ELSE /\ isRefactoring' = TRUE
            /\ refInFlight' = Append(refInFlight,
                                     [ instruction |-> instruction,
                                       file |-> selectedFile ])
            /\ UNCHANGED << generatedFiles, previewFiles, finalFiles, refactorPrompt,
                            showRefactorInput >>
    /\ UNCHANGED << runtimeApiKey, step, selectedFile, complete, controlFrame >>

\* the JS -> TS shortcut, rendered for a .js or .jsx file, disabled={isRefactoring}
clickJsToTs ==
    /\ step = 3 /\ selectedFile # << >>
    /\ endsWithJs(nodeAt(previewFiles, selectedFile).name)
    /\ ~isRefactoring
    /\ callHandleRefactor(ShortcutInstruction)

\* the Apply button, disabled={!refactorPrompt.trim() || isRefactoring}
clickApply ==
    /\ step = 3 /\ selectedFile # << >> /\ showRefactorInput
    /\ trim(refactorPrompt) # << >> /\ ~isRefactoring
    /\ callHandleRefactor(refactorPrompt)

\* onKeyDown={(e) => e.key === 'Enter' && handleRefactor(refactorPrompt)}
pressEnter ==
    /\ step = 3 /\ selectedFile # << >> /\ showRefactorInput
    /\ callHandleRefactor(refactorPrompt)

\* the calls in flight without the i-th
without(calls_, i) == SubSeq(calls_, 1, i - 1) \o SubSeq(calls_, i + 1, Len(calls_))

\* a refactorCode call in flight resolves with the stripped response text
refactorCodeResolves ==
    /\ \E i \in 1..Len(refInFlight) : \E text \in RefactorTexts :
          /\ updateInPlace(refInFlight[i].file,
                           jsString(trim(stripCodeFences(text))),
                           refInFlight[i].instruction)
          /\ refInFlight' = without(refInFlight, i)
    /\ UNCHANGED << runtimeApiKey, step, selectedFile, complete, refactors,
                    controlFrame >>

\* a refactorCode call in flight rejects: the catch block alerts, and
\* finally setIsRefactoring(false)
refactorCodeRejects ==
    /\ \E i \in 1..Len(refInFlight) : refInFlight' = without(refInFlight, i)
    /\ IF step = 3 THEN isRefactoring' = FALSE ELSE UNCHANGED isRefactoring
    /\ UNCHANGED << runtimeApiKey, step, generatedFiles, previewFiles, selectedFile,
                    finalFiles, complete, refactors, refactorPrompt,
                    showRefactorInput, controlFrame >>

\* "Generate Repository": handlePreviewNext, StepPreview unmounts, StepGenerate
\* mounts and its effect takes existingFiles = generatedFiles
leavePreview ==
    /\ step = 3 /\ ~previewLoading /\ Len(previewFiles) > 0
    /\ step' = 4
    /\ finalFiles' = generatedFiles
    /\ complete' = TRUE
    /\ previewFiles' = << >> /\ selectedFile' = << >> /\ isRefactoring' = FALSE
    /\ refactorPrompt' = << >> /\ showRefactorInput' = FALSE
    /\ UNCHANGED << runtimeApiKey, generatedFiles, refactors, refInFlight,
                    controlFrame >>

ControlNext ==
    \/ selectFile
    \/ toggleRefactorInput
    \/ setRefactorPrompt
    \/ clickJsToTs
    \/ clickApply
    \/ pressEnter
    \/ refactorCodeResolves
    \/ refactorCodeRejects
    \/ leavePreview

SpecControls == ControlInit /\ [][ControlNext]_vars

\* C25: while the Generate step is shown, the tree it zips or pushes stays
\* the tree generatedFiles held when the Preview step was left, whatever
\* refactor request was in flight then.
C25_HandedTreeUnchanged ==
    [][ (step = 4 /\ step' = 4) => finalFiles' = finalFiles ]_vars

\* C26: at most one refactorCode request is in flight at any time.
C26_OneRefactorInFlight ==
    Len(refInFlight) <= 1

----------------------------------------------------------------------------
(* The effect of StepGenerate, in the two revisions held by                *)
(* 5-Generate.tsx: lines 28-76 ("current", with the existingFiles prop)    *)
(* and lines 351-382 ("earlier", without it).                              *)

\* const steps = [...]: the simulated progress messages
steps ==
    << "Initializing workspace...", "Parsing input files...",
       "Applying heuristics...", "Generating package.json...",
       "Configuring TypeScript...", "Writing CI workflows...",
       "Compressing archive..." >>

\* if (existingFiles && existingFiles.length > 0) of the current revision
hasExistingFiles == revision = "current" /\ Len(generatedFiles) > 0

\* everything the effect of StepGenerate leaves alone
tickerFrame ==
    << keyVars, detectionVars, previewVars, genPc, genAnswer, genConfig, refVars,
       endpointCalls, treeVars, githubToken, showTokenInput, isPushing, pushResult,
       runVars, hostVars, heurVars, storeVars, effectCalls, navs, edited,
       uploadVars, controlVars, revision >>

\* StepGenerate has mounted and its effect has run once
TickerInit ==
    /\ revision \in { "current", "earlier" }
    /\ runtimeApiKey \in { "", "user-key" }
    /\ envApiKey = "" /\ build = "aiService"
    /\ step = 4 /\ rawInput = << "const x = 1" >>
    /\ config \in PreviewConfigs
    /\ generatedFiles \in { << >>, mockGenerate(config, rawInput).value }
    /\ IF hasExistingFiles
       THEN /\ finalFiles = generatedFiles
            /\ logs = << "Files prepared from preview." >>
            /\ complete = TRUE
            /\ interval = "none"
       ELSE /\ finalFiles = << >>
            /\ logs = << >>
            /\ complete = FALSE
            /\ interval = "running"
    /\ currentStep = 0 /\ tickerCall = "none"
    /\ detectionLoading = FALSE /\ detectionResult = << >>
    /\ previewLoading = FALSE /\ previewFiles = << >>
    /\ selectedFile = << >> /\ isRefactoring = FALSE
    /\ detectPc = "off" /\ detectAnswer = << >>
    /\ genPc = "off" /\ genAnswer = << >> /\ genConfig = << >> /\ genValue = << >>
    /\ refPc = "off" /\ refInstruction = << >> /\ refactors = 0
    /\ refOutcome = << >>
    /\ endpointCalls = << >>
    /\ files = << >> /\ fileNodes = << >> /\ convPc = "off"
    /\ githubToken = FALSE /\ showTokenInput = FALSE /\ isPushing = FALSE
    /\ pushResult = "null"
    /\ pushPc = "off" /\ repoData = UNDEFINED
    /\ latestCommitSha = UNDEFINED /\ baseTreeSha = UNDEFINED
    /\ treeItems = << >> /\ blobQueue = << >> /\ treeSha = UNDEFINED
    /\ callLog = << >> /\ createCalls = 0 /\ createdBefore = 0
    /\ remoteRepo = FALSE /\ remoteRef = UNDEFINED
    /\ HeurOff
    /\ StoreOff
    /\ effectCalls = << >> /\ navs = 0 /\ edited = FALSE
    /\ UploadOff
    /\ ControlsOff

\* the interval fires with currentStep < steps.length: one more log line
tick ==
    /\ step = 4 /\ interval = "running"
    /\ currentStep < Len(steps)
    /\ logs' = Append(logs, steps[currentStep + 1])
    /\ currentStep' = currentStep + 1
    /\ UNCHANGED << appVars, finalFiles, complete, interval, tickerCall, genValue,
                    tickerFrame >>

\* the interval fires with currentStep >= steps.length: clearInterval, then
\* generateFileTree(config, rawInput) in the current revision, and
\* setComplete(true) in the earlier one
lastTick ==
    /\ step = 4 /\ interval = "running"
    /\ currentStep >= Len(steps)
    /\ interval' = "cleared"
    /\ IF revision = "current"
       THEN /\ tickerCall' = "pending"
            /\ UNCHANGED complete
       ELSE /\ complete' = TRUE
            /\ UNCHANGED tickerCall
    /\ UNCHANGED << appVars, finalFiles, logs, currentStep, genValue, tickerFrame >>

\* generateFileTree(...).then(files => { setFinalFiles(files); setComplete(true) }):
\* a rejection has no handler, and an unmounted component ignores the setters
generateFileTreeSettles ==
    /\ tickerCall = "pending"
    /\ IF step = 4
       THEN \E answer \in generateAnswers :
              LET out == generateFileTree(build, config, rawInput, answer)
              IN  IF out.threw
                  THEN /\ tickerCall' = "rejected"
                       /\ UNCHANGED << finalFiles, complete, genValue >>
                  ELSE /\ tickerCall' = "resolved"
                       /\ genValue' = out.value
                       /\ finalFiles' = out.value
                       /\ complete' = TRUE
       ELSE /\ tickerCall' = "resolved"
            /\ UNCHANGED << finalFiles, complete, genValue >>
    /\ UNCHANGED << appVars, logs, currentStep, interval, tickerFrame >>

\* handleReset while StepGenerate is shown: the component unmounts, its
\* cleanup clears the interval, its state is gone
resetFromGenerate ==
    /\ step = 4
    /\ step' = 0 /\ rawInput' = << >> /\ config' = INITIAL_CONFIG
    /\ generatedFiles' = << >>
    /\ interval' = IF interval = "running" THEN "cleared" ELSE interval
    /\ finalFiles' = << >> /\ logs' = << >> /\ complete' = FALSE
    /\ UNCHANGED << currentStep, tickerCall, genValue, tickerFrame >>

TickerNext ==
    \/ tick
    \/ lastTick
    \/ generateFileTreeSettles
    \/ resetFromGenerate

SpecTicker == TickerInit /\ [][TickerNext]_vars

\* C23: in a Generate step shown with a non-empty tree from Preview, the step
\* is complete with those files and generateFileTree is never called; shown
\* without files, there is one log line per elapsed tick, generateFileTree is
\* called only when all seven lines are shown, and complete is true only once
\* that call has resolved and finalFiles holds the tree it resolved with.
C23_TickerThenGenerate ==
    step = 4 =>
        IF Len(generatedFiles) > 0
        THEN complete /\ finalFiles = generatedFiles /\ tickerCall = "none"
        ELSE /\ Len(logs) = currentStep
             /\ tickerCall # "none" => Len(logs) = Len(steps)
             /\ complete => (tickerCall = "resolved" /\ finalFiles = genValue)

====
